---- MODULE Spec2Model ----
(***************************************************************************)
(* A model of ursa, a validation library for Go: scalar validators         *)
(* (validator[T]: coercion, rules, default, required, build error) and     *)
(* object validators (ordered fields, refiners, request adapters).         *)
(*                                                                         *)
(* Go values are tagged records.  A number is held in tenths (q = 10 * x)  *)
(* so that 3.9 and the truncation of float64 to an integer are exact;      *)
(* a string is its sequence of bytes.                                      *)
(***************************************************************************)
EXTENDS Integers, Sequences, FiniteSets, TLC

\* ------------------------------------------------------------------ bounds

\* Longest option list handed to a scalar constructor.
MaxOpts == 2

\* ------------------------------------------------------------------ errors

NoErr == [id |-> "nil", message |-> "", inner |-> ""]

NewError(message, inner) == [id |-> "new", message |-> message, inner |-> inner]

InvalidTypeError == [id |-> "InvalidTypeError", message |-> "invalid type", inner |-> ""]

InvalidValueError == [id |-> "InvalidValueError", message |-> "invalid value", inner |-> ""]

InvalidValidatorStateError ==
    [id |-> "InvalidValidatorStateError", message |-> "invalid type", inner |-> ""]

RequiredPropertyMissingError ==
    [id |-> "RequiredPropertyMissingError", message |-> "missing required property", inner |-> ""]

MissingTransformerError ==
    [id |-> "MissingTransformerError", message |-> "missing property transformer", inner |-> ""]

\* ------------------------------------------------------------------ values

\* p: "val" a value, "ptr" a pointer to the value, "nilptr" a nil pointer of
\* type *t.  The untyped nil interface is Nil.  q is a number in tenths, b the
\* bytes of a string or slice, m the entries of a map or the fields of a struct.
Val(t, q, b) == [t |-> t, p |-> "val", q |-> q, b |-> b, m |-> <<>>]

Nil == Val("nil", 0, <<>>)

IntV(n) == Val("int", 10 * n, <<>>)

Int16V(n) == Val("int16", 10 * n, <<>>)

MyIntV(n) == Val("MyInt", 10 * n, <<>>)

FloatV(tenths) == Val("float64", tenths, <<>>)

StrV(b) == Val("string", 0, b)

BytesV(b) == Val("bytes", 0, b)

UUIDV(b) == Val("uuid", 0, b)

\* a time.Time, by its year
TimeV(year) == Val("time", year, <<>>)

PtrTo(x) == [x EXCEPT !.p = "ptr"]

NilPtr(t) == [t |-> t, p |-> "nilptr", q |-> 0, b |-> <<>>, m |-> <<>>]

\* reflect.Kind of a Go type: MyInt is `type MyInt int`.
KindOfType(t) ==
    CASE t = "MyInt" -> "int"
      [] t \in {"bytes", "files"} -> "slice"
      [] t \in {"map", "intmap"} -> "map"
      [] t \in {"struct", "bool"} -> t
      [] t = "time" -> "struct"
      [] t = "uuid" -> "array"
      [] t = "nil" -> "invalid"
      [] OTHER -> t

\* reflect.ValueOf(val).Kind()
KindOf(x) == IF x.p = "val" THEN KindOfType(x.t) ELSE "ptr"

NumericKinds == {"int", "int16", "float64"}

\* ------------------------------------------------------------------ bytes

Digit(d) == 48 + d

IsDigit(c) == c >= 48 /\ c <= 57

RECURSIVE DigitsUpTo(_, _)
\* the decimal number written by the first n digits of s
DigitsUpTo(s, n) ==
    IF n = 0 THEN 0 ELSE 10 * DigitsUpTo(s, n - 1) + (s[n] - 48)

DigitsValue(s) == DigitsUpTo(s, Len(s))

AllDigits(s) == \A i \in 1..Len(s) : IsDigit(s[i])

DotAt(s) == IF \E i \in 1..Len(s) : s[i] = 46
            THEN CHOOSE i \in 1..Len(s) : s[i] = 46 /\ \A j \in 1..(i - 1) : s[j] # 46
            ELSE 0

\* strconv.ParseFloat(s, 64) on the decimal strings of this model (an optional
\* minus sign, digits, at most one fractional digit): the value in tenths.
ParseFloat(s) ==
    LET neg == Len(s) > 0 /\ s[1] = 45
        body == IF neg THEN SubSeq(s, 2, Len(s)) ELSE s
        dot == DotAt(body)
        ip == IF dot = 0 THEN body ELSE SubSeq(body, 1, dot - 1)
        fp == IF dot = 0 THEN <<>> ELSE SubSeq(body, dot + 1, Len(body))
        ok == /\ AllDigits(ip) /\ AllDigits(fp)
              /\ Len(ip) + Len(fp) > 0
              /\ Len(fp) <= 1
        mag == 10 * DigitsValue(ip) + DigitsValue(fp)
    IN IF ok THEN [ok |-> TRUE, q |-> IF neg THEN 0 - mag ELSE mag]
       ELSE [ok |-> FALSE, q |-> 0]

HexChar(n) == IF n < 10 THEN 48 + n ELSE 87 + n

HexVal(c) ==
    CASE c >= 48 /\ c <= 57 -> c - 48
      [] c >= 97 /\ c <= 102 -> c - 87
      [] c >= 65 /\ c <= 70 -> c - 55
      [] OTHER -> 0 - 1

\* positions of the dashes in xxxxxxxx-xxxx-xxxx-xxxx-xxxxxxxxxxxx
UUIDDashes == {9, 14, 19, 24}

\* position in the 36-character form of the first hex digit of byte i (1..16)
UUIDHexPos(i) ==
    2 * i - 1 + (IF i > 4 THEN 1 ELSE 0) + (IF i > 6 THEN 1 ELSE 0)
              + (IF i > 8 THEN 1 ELSE 0) + (IF i > 10 THEN 1 ELSE 0)

\* uuid.UUID.String(): the canonical 36-character form
UUIDString(u) ==
    [k \in 1..36 |->
        IF k \in UUIDDashes THEN 45
        ELSE LET i == CHOOSE j \in 1..16 : k \in {UUIDHexPos(j), UUIDHexPos(j) + 1}
             IN IF k = UUIDHexPos(i) THEN HexChar(u[i] \div 16) ELSE HexChar(u[i] % 16)]

\* uuid.Parse on the 36-character form (the other accepted spellings, of
\* length 32, 38 and 45, are not drawn as inputs)
ParseUUID(s) ==
    LET ok == /\ Len(s) = 36
              /\ \A k \in UUIDDashes : s[k] = 45
              /\ \A k \in (1..36) \ UUIDDashes : HexVal(s[k]) >= 0
    IN IF ok
       THEN [ok |-> TRUE,
             u |-> [i \in 1..16 |-> 16 * HexVal(s[UUIDHexPos(i)]) + HexVal(s[UUIDHexPos(i) + 1])]]
       ELSE [ok |-> FALSE, u |-> <<>>]

\* ------------------------------------------------------------- conversion

\* the member of a singleton set: The({F(x) : x \in {e}}) is F(e) with e
\* computed once, as a local variable is
The(S) == CHOOSE x \in S : TRUE

Outcome(st, val, err) == [st |-> st, val |-> val, err |-> err]

Ok(val) == Outcome("ok", val, NoErr)

Failed(err) == Outcome("err", Nil, err)

\* a run-time panic: the call returns nothing
Fault == Outcome("fault", Nil, NoErr)

\* the value is absent and there is nothing to validate
Absent == Outcome("absent", Nil, NoErr)

\* a conversion that rounds to the nearest integer
RoundQ(q) == IF q >= 0 THEN ((q + 5) \div 10) * 10 ELSE 0 - (((5 - q) \div 10) * 10)

\* float64 -> integer drops the fraction (toward zero)
TruncQ(q) == IF q >= 0 THEN (q \div 10) * 10 ELSE 0 - (((0 - q) \div 10) * 10)

\* an integer narrowed to 16 bits, two's complement
Wrap16(n) == LET m == n % 65536 IN IF m >= 32768 THEN m - 65536 ELSE m

\* string(rune(n)): the UTF-8 bytes of code point n, U+FFFD when n is none
EncodeRune(n) ==
    CASE n >= 0 /\ n < 128 -> <<n>>
      [] n >= 128 /\ n < 2048 -> <<192 + (n \div 64), 128 + (n % 64)>>
      [] (n >= 2048 /\ n < 55296) \/ (n >= 57344 /\ n < 65536) ->
            <<224 + (n \div 4096), 128 + ((n \div 64) % 64), 128 + (n % 64)>>
      [] n >= 65536 /\ n < 1114112 ->
            <<240 + (n \div 262144), 128 + ((n \div 4096) % 64),
              128 + ((n \div 64) % 64), 128 + (n % 64)>>
      [] OTHER -> <<239, 191, 189>>

IntegerKinds == {"int", "int16"}

\* reflect.TypeOf(x).ConvertibleTo(reflect.TypeOf(zero T)); a pointer type
\* converts to no value type
ConvertibleTo(x, T) ==
    /\ x.p = "val"
    /\ LET k == KindOfType(x.t)
       IN \/ k \in NumericKinds /\ T \in NumericKinds
          \/ k \in IntegerKinds /\ T = "string"
          \/ x.t \in {"string", "bytes"} /\ T \in {"string", "bytes"}
          \/ x.t \in {"bytes", "uuid"} /\ T = "uuid"
          \/ x.t = "time" /\ T = "time"

\* reflect.ValueOf(x).Convert(reflect.TypeOf(zero T)), for ConvertibleTo(x, T)
Convert(x, T) ==
    LET k == KindOfType(x.t)
    IN CASE T = "int" -> Ok(Val("int", TruncQ(x.q), <<>>))
         [] T = "int16" -> Ok(Val("int16", 10 * Wrap16(TruncQ(x.q) \div 10), <<>>))
         [] T = "float64" -> Ok(Val("float64", x.q, <<>>))
         [] T = "string" -> IF k \in IntegerKinds
                            THEN Ok(StrV(EncodeRune(x.q \div 10)))
                            ELSE Ok(StrV(x.b))
         [] T = "bytes" -> Ok(BytesV(x.b))
         [] T = "uuid" -> IF Len(x.b) >= 16 THEN Ok(UUIDV(SubSeq(x.b, 1, 16))) ELSE Fault
         [] T = "time" -> Ok(TimeV(x.q))
         [] OTHER -> Fault

\* ------------------------------------------------------------------ rules

Rule(kind, n, pat, msg) == [kind |-> kind, n |-> n, pat |-> pat, msg |-> msg]

RuleError(rule, default) ==
    NewError(IF rule.msg # "" THEN rule.msg ELSE default, "")

NumberRules == {"Min", "Max", "NonZero", "MustBeInteger"}

StringRules == {"MinLength", "MaxLength", "Matches"}

TimeRules == {"NotBefore", "NotAfter"}

\* the type parameter of the rule: parseOpt[T] for which T
RuleFamily(rule) ==
    CASE rule.kind \in NumberRules -> "number"
      [] rule.kind \in StringRules -> "string"
      [] rule.kind \in TimeRules -> "time"
      [] OTHER -> "uuid"

TypeFamily(T) ==
    CASE T \in NumericKinds -> "number"
      [] T = "string" -> "string"
      [] OTHER -> T

\* a Min that rejects the bound itself
MinExclusive(rule, val) ==
    IF val.q <= 10 * rule.n THEN RuleError(rule, "number too small") ELSE NoErr

Min(rule, val) ==
    IF val.q < 10 * rule.n THEN RuleError(rule, "number too small") ELSE NoErr

\* a Max that rejects the bound itself
MaxExclusive(rule, val) ==
    IF val.q >= 10 * rule.n THEN RuleError(rule, "number too large") ELSE NoErr

Max(rule, val) ==
    IF val.q > 10 * rule.n THEN RuleError(rule, "number too large") ELSE NoErr

NonZero(rule, val) ==
    IF val.q = 0 THEN RuleError(rule, "number is uero") ELSE NoErr

MustBeInteger(rule, val) ==
    IF val.q % 10 # 0 THEN RuleError(rule, "number is not integer") ELSE NoErr

MinLength(rule, val) ==
    IF Len(val.b) < rule.n THEN RuleError(rule, "string too short") ELSE NoErr

MaxLength(rule, val) ==
    IF Len(val.b) > rule.n THEN RuleError(rule, "string too long") ELSE NoErr

\* pat "^[0-9]*$" is the digits-only pattern; any other pattern of the model
\* does not compile
Matches(rule, val) ==
    IF rule.pat # "^[0-9]*$" THEN NewError("invalid regexp pattern", "regexp")
    ELSE IF ~AllDigits(val.b) THEN RuleError(rule, "string does not match pattern")
    ELSE NoErr

NonNullUUID(rule, val) ==
    IF \E i \in 1..Len(val.b) : val.b[i] > 0 THEN NoErr
    ELSE RuleError(rule, "uuid is zero")

\* NotBefore(datum), NotAfter(datum): rule.n is the year of datum
NotBefore(rule, val) ==
    IF val.q < rule.n THEN RuleError(rule, "date is too early") ELSE NoErr

NotAfter(rule, val) ==
    IF val.q > rule.n THEN RuleError(rule, "date is too late") ELSE NoErr

\* opt(*typedVal): one rule applied to the coerced value (for a number, through
\* optWrapper's conversion to float64, which keeps q)
ApplyRule(rule, val) ==
    CASE rule.kind = "Min" -> Min(rule, val)
      [] rule.kind = "Max" -> Max(rule, val)
      [] rule.kind = "NonZero" -> NonZero(rule, val)
      [] rule.kind = "MustBeInteger" -> MustBeInteger(rule, val)
      [] rule.kind = "MinLength" -> MinLength(rule, val)
      [] rule.kind = "MaxLength" -> MaxLength(rule, val)
      [] rule.kind = "Matches" -> Matches(rule, val)
      [] rule.kind = "NotBefore" -> NotBefore(rule, val)
      [] rule.kind = "NotAfter" -> NotAfter(rule, val)
      [] OTHER -> NonNullUUID(rule, val)

\* -------------------------------------------------------- scalar validator

\* validator[T]: transformerFn is "" when nil, else the name of the coercion
\* it wraps; defaultValue is a *T (set = FALSE when nil); err is NoErr when nil
Validator(T, transformerFn, options, defaultValue, required, err) ==
    [T |-> T, transformerFn |-> transformerFn, options |-> options,
     defaultValue |-> defaultValue, required |-> required, err |-> err]

NoDefault == [set |-> FALSE, val |-> Nil]

Opt(o, rule, val) == [o |-> o, rule |-> rule, val |-> val]

NoRule == Rule("", 0, "", "")

RuleOpt(rule) == Opt("rule", rule, Nil)

WithDefault(val) == Opt("WithDefault", NoRule, val)

Required == Opt("Required", NoRule, Nil)

\* WithTimeFormat(layout), for the layout "2006": a year of four digits
WithTimeFormat == Opt("WithTimeFormat", NoRule, Nil)

\* a default kept as it was given, without the conversion to T
setDefaultUnconverted(v, val) ==
    IF ~ConvertibleTo(val, v.T) THEN [v EXCEPT !.err = InvalidTypeError]
    ELSE [v EXCEPT !.defaultValue = [set |-> TRUE, val |-> val]]

\* setDefault(val): a value not convertible to T records a build error
validator_setDefault(v, val) ==
    IF ~ConvertibleTo(val, v.T) THEN [v EXCEPT !.err = InvalidTypeError]
    ELSE [v EXCEPT !.defaultValue = [set |-> TRUE, val |-> Convert(val, v.T).val]]

validator_setRequired(v) == [v EXCEPT !.required = TRUE]

\* setTransformer(fn): fn is kept by the name of the coercion it calls
validator_setTransformer(v, fn) == [v EXCEPT !.transformerFn = fn]

RECURSIVE ApplyOpts(_, _)
\* the loop of newGenerator: a rule of the validator's own type is appended, a
\* generic option is applied (WithDefault and Required, the two there are,
\* return no error), a rule of another type is skipped
ApplyOpts(v, opts) ==
    IF opts = <<>> THEN v
    ELSE LET opt == Head(opts)
             next ==
                 CASE opt.o = "rule" ->
                        IF RuleFamily(opt.rule) = TypeFamily(v.T)
                        THEN [v EXCEPT !.options = Append(@, opt.rule)]
                        ELSE v
                   [] opt.o = "WithDefault" -> validator_setDefault(v, opt.val)
                   [] opt.o = "WithTimeFormat" -> validator_setTransformer(v, "coerceToTime")
                   [] OTHER -> validator_setRequired(v)
         IN ApplyOpts(next, Tail(opts))

newGenerator(T, opts) ==
    ApplyOpts(Validator(T, "", <<>>, NoDefault, FALSE, NoErr), opts)

\* UUID(opts...): the generator with coerceToUUID installed as transformer
UUID(opts) == validator_setTransformer(newGenerator("uuid", opts), "coerceToUUID")

\* isNumeric(i): by the kind of the dynamic type, so a pointer is not numeric
isNumeric(x) == KindOf(x) \in NumericKinds

\* strconv.ParseFloat as coerceToNumber returns it
parsedNumber(r) == IF r.ok THEN Ok(FloatV(r.q)) ELSE Failed(NewError("strconv", ""))

RECURSIVE coerceToNumber(_)
\* a pointer is followed (a nil pointer has no element to hand on: a panic), a
\* string is parsed as float64, anything else is an invalid value
coerceToNumber(val) ==
    CASE val.p = "nilptr" -> Fault
      [] val.p = "ptr" -> coerceToNumber([val EXCEPT !.p = "val"])
      [] KindOf(val) # "string" -> Failed(InvalidValueError)
      [] OTHER -> The({parsedNumber(r) : r \in {ParseFloat(val.b)}})

\* uuid.Parse as coerceToUUID returns it
parsedUUID(r) == IF r.ok THEN Ok(UUIDV(r.u)) ELSE Failed(NewError("uuid", ""))

RECURSIVE coerceToUUID(_)
coerceToUUID(val) ==
    CASE val.p = "nilptr" -> Fault
      [] val.p = "ptr" -> coerceToUUID([val EXCEPT !.p = "val"])
      [] KindOf(val) # "string" -> Failed(InvalidValueError)
      [] OTHER -> The({parsedUUID(r) : r \in {ParseUUID(val.b)}})

\* time.Parse("2006", s) as coerceToTime returns it: four digits are a year
parsedTime(s) ==
    IF Len(s) = 4 /\ AllDigits(s) THEN Ok(TimeV(DigitsValue(s)))
    ELSE Failed(NewError("time", ""))

RECURSIVE coerceToTime(_)
coerceToTime(val) ==
    CASE val.p = "nilptr" -> Fault
      [] val.p = "ptr" -> coerceToTime([val EXCEPT !.p = "val"])
      [] KindOf(val) # "string" -> Failed(InvalidValueError)
      [] OTHER -> parsedTime(val.b)

\* fn(val) of the closure that was handed to setTransformer
coercion(fn, val) ==
    IF fn = "coerceToTime" THEN coerceToTime(val) ELSE coerceToUUID(val)

\* the conversion to T of what the coercion returned
transformed(v, r) ==
    CASE r.st = "fault" -> Fault
      [] r.st = "err" -> Failed(InvalidValueError)
      [] ~ConvertibleTo(r.val, v.T) -> Failed(InvalidTypeError)
      [] OTHER -> Convert(r.val, v.T)

\* the function setTransformer installs: any error of the coercion becomes
\* InvalidValueError, and its value is converted to T
transformerFn(v, val) == The({transformed(v, r) : r \in {coercion(v.transformerFn, val)}})

\* a nil input with the required flag looked at before the default
nilRequiredFirst(v) ==
    IF v.required THEN "required"
    ELSE IF v.defaultValue.set THEN "default"
    ELSE "absent"

\* case reflect.Invalid of convert: what a nil input resolves to
nilInput(v) ==
    IF v.defaultValue.set THEN "default"
    ELSE IF v.required THEN "required"
    ELSE "absent"

\* the coercion of a value whose kind is not T's: the transformer when there
\* is one, else coerceToNumber for a non-number and a numeric T
coerce(v, val) ==
    IF v.transformerFn = ""
    THEN IF ~isNumeric(val) /\ v.T \in NumericKinds
         THEN The({IF r.st = "err" THEN Failed(InvalidTypeError) ELSE r
                   : r \in {coerceToNumber(val)}})
         ELSE Ok(val)
    ELSE The({IF r.st = "err"
              THEN Failed(NewError("transformer error", r.err.id))
              ELSE r
              : r \in {transformerFn(v, val)}})

\* a conversion that reports a value of an inconvertible type as an invalid
\* type
convertCoercedInvalidType(v, coerced) ==
    IF coerced.st # "ok" THEN coerced
    ELSE IF ConvertibleTo(coerced.val, v.T) THEN Convert(coerced.val, v.T)
    ELSE Failed(InvalidTypeError)

\* the coerced value converted to T by reflection
convertCoerced(v, coerced) ==
    IF coerced.st # "ok" THEN coerced
    ELSE IF ConvertibleTo(coerced.val, v.T) THEN Convert(coerced.val, v.T)
    ELSE Failed(MissingTransformerError)

\* convert(val) for a non-nil val: a value of another kind is coerced and
\* converted; a value of T's kind is asserted to be a T, which panics for any
\* other type of that kind
convertValue(v, val) ==
    IF (IF val.p = "nilptr" THEN "invalid" ELSE KindOfType(val.t)) # KindOfType(v.T)
    THEN The({convertCoerced(v, c) : c \in {coerce(v, val)}})
    ELSE IF val.t = v.T THEN Ok([val EXCEPT !.p = "val"])
    ELSE Fault

\* convert(val): nil resolves to the default (the *T is converted in turn), to
\* the required error or to absence
validator_convert(v, val) ==
    IF val # Nil THEN convertValue(v, val)
    ELSE CASE nilInput(v) = "default" -> convertValue(v, PtrTo(v.defaultValue.val))
           [] nilInput(v) = "required" -> Failed(RequiredPropertyMissingError)
           [] OTHER -> Absent

\* the zero value of T, which a parseResult[T] holds until Set is called
Zero(T) ==
    CASE T = "uuid" -> UUIDV([i \in 1..16 |-> 0])
      [] T = "time" -> TimeV(1)
      [] OTHER -> Val(T, 0, <<>>)

\* parseResult[T]; panicked marks a call that did not return
Result(valid, value, errors) ==
    [valid |-> valid, value |-> value, errors |-> errors, panicked |-> FALSE]

Panicked == [valid |-> FALSE, value |-> Nil, errors |-> <<>>, panicked |-> TRUE]

\* the outcome of the rule loop with one more rule in front
WithRule(i, err, rest) ==
    [errors |-> (IF err = NoErr THEN <<>> ELSE <<err>>) \o rest.errors,
     evaluated |-> <<i>> \o rest.evaluated]

NoRulesRun == [errors |-> <<>>, evaluated |-> <<>>]

RECURSIVE EvalFirstFailure(_, _, _)
\* a loop that returns at the first failing rule
EvalFirstFailure(options, typedVal, i) ==
    IF i > Len(options) THEN NoRulesRun
    ELSE The({WithRule(i, err,
                       IF err # NoErr THEN NoRulesRun
                       ELSE EvalFirstFailure(options, typedVal, i + 1))
              : err \in {ApplyRule(options[i], typedVal)}})

RECURSIVE EvalOptions(_, _, _)
\* for _, opt := range v.options: every rule from the i-th on is applied and
\* each error is appended
EvalOptions(options, typedVal, i) ==
    IF i > Len(options) THEN NoRulesRun
    ELSE The({WithRule(i, err, rest)
              : err \in {ApplyRule(options[i], typedVal)},
                rest \in {EvalOptions(options, typedVal, i + 1)}})

\* the result once the rules have run on the typed value
parseTyped(v, typedVal, run) ==
    [self |-> v,
     res |-> Result(run.errors = <<>>,
                    IF run.errors = <<>> THEN typedVal ELSE Zero(v.T),
                    run.errors),
     evaluated |-> run.evaluated]

\* a Parse that goes on to the rules, with the zero value, when convert failed
parseConvertedThenRules(v, c) ==
    CASE c.st = "fault" -> [self |-> v, res |-> Panicked, evaluated |-> <<>>]
      [] c.st = "err" ->
           The({[self |-> v,
                 res |-> Result(FALSE, Zero(v.T), <<c.err>> \o run.errors),
                 evaluated |-> run.evaluated]
                : run \in {EvalOptions(v.options, Zero(v.T), 1)}})
      [] c.st = "absent" ->
           [self |-> v, res |-> Result(TRUE, Zero(v.T), <<>>), evaluated |-> <<>>]
      [] OTHER ->
           The({parseTyped(v, c.val, run) : run \in {EvalOptions(v.options, c.val, 1)}})

\* Parse after convert: an error ends the call, an absent value is valid, and
\* a typed value goes through the rules
parseConverted(v, c) ==
    CASE c.st = "fault" -> [self |-> v, res |-> Panicked, evaluated |-> <<>>]
      [] c.st = "err" ->
           [self |-> v, res |-> Result(FALSE, Zero(v.T), <<c.err>>), evaluated |-> <<>>]
      [] c.st = "absent" ->
           [self |-> v, res |-> Result(TRUE, Zero(v.T), <<>>), evaluated |-> <<>>]
      [] OTHER ->
           The({parseTyped(v, c.val, run) : run \in {EvalOptions(v.options, c.val, 1)}})

\* a Parse that does not look at the build error
ParseIgnoringBuildError(v, val) ==
    The({parseConverted(v, c) : c \in {validator_convert(v, val)}})

\* Parse(val): the validator as the call leaves it, the result, and the
\* indices of the rules that were applied
validator_Parse(v, val) ==
    IF v.err # NoErr
    THEN [self |-> v,
          res |-> Result(FALSE, Zero(v.T), <<InvalidValidatorStateError>>),
          evaluated |-> <<>>]
    ELSE The({parseConverted(v, c) : c \in {validator_convert(v, val)}})

\* ------------------------------------------------------------ scalar state

\* v and o are the schemas (a scalar and an object validator), opts the
\* options the constructor was called with, declared the field names in the
\* order the builder calls gave them, req the request a *http.Request input
\* points to, input, res and evaluated the argument, the result and the
\* trace of the last Parse call, op the last operation
VARIABLES v, opts, o, declared, req, input, res, evaluated, op, target, ret,
          procs

vars == <<v, opts, o, declared, req, input, res, evaluated, op, target, ret,
         procs>>

\* ---------------------------------------------------- scalar specification

\* the bytes of the literals used as inputs, defaults and patterns
Str7 == <<55>>

Str3p9 == <<51, 46, 57>>

\* -3.9
StrNeg3p9 == <<45, 51, 46, 57>>

StrA1 == <<97, 49>>

Str01234 == <<48, 49, 50, 51, 52>>

Str2005 == <<50, 48, 48, 53>>

NilUUID == [i \in 1..16 |-> 0]

SomeUUID == [i \in 1..16 |-> IF i = 16 THEN 171 ELSE 0]

ScalarTypes == {"int", "int16", "string", "uuid", "time"}

\* the options a caller hands to the constructor of a T validator
OptUniverse(T) ==
    {Required, WithTimeFormat}
    \cup (CASE T \in NumericKinds ->
                 {WithDefault(IntV(0)), WithDefault(FloatV(39)), WithDefault(StrV(Str7)),
                  WithDefault(MyIntV(5)),
                  RuleOpt(Rule("Min", 5, "", "")), RuleOpt(Rule("NonZero", 0, "", "zero")),
                  RuleOpt(Rule("Min", 5, "", "Number should be >= 5")),
                  RuleOpt(Rule("Max", 7, "", ""))}
            [] T = "string" ->
                 {WithDefault(StrV(StrA1)), WithDefault(IntV(7)), WithDefault(FloatV(39)),
                  RuleOpt(Rule("MinLength", 5, "", "")),
                  RuleOpt(Rule("Matches", 0, "^[0-9]*$", "")),
                  RuleOpt(Rule("Min", 5, "", ""))}
            [] T = "time" ->
                 {WithDefault(TimeV(1999)), WithDefault(StrV(Str2005)),
                  RuleOpt(Rule("NotBefore", 2000, "", "")),
                  RuleOpt(Rule("NotAfter", 2010, "", "late"))}
            [] OTHER ->
                 {WithDefault(UUIDV(NilUUID)), WithDefault(BytesV(SomeUUID)),
                  WithDefault(StrV(UUIDString(SomeUUID))),
                  RuleOpt(Rule("NonNullUUID", 0, "", ""))})

RECURSIVE OptSeqs(_, _)
\* the option lists of length at most n
OptSeqs(T, n) ==
    IF n = 0 THEN {<<>>}
    ELSE LET shorter == OptSeqs(T, n - 1)
         IN shorter \cup {Append(s, opt) : s \in shorter, opt \in OptUniverse(T)}

ScalarInputs ==
    {Nil, IntV(0), IntV(7), IntV(70007), IntV(65542), Int16V(7), MyIntV(5), FloatV(39),
     StrV(Str7), StrV(Str3p9), StrV(StrNeg3p9), StrV(StrA1), StrV(Str01234), StrV(UUIDString(SomeUUID)),
     StrV(Str2005), TimeV(1999), TimeV(2005), TimeV(2011), PtrTo(TimeV(1999)),
     PtrTo(StrV(Str7)), PtrTo(IntV(7)), NilPtr("string"), NilPtr("int"),
     BytesV(SomeUUID), UUIDV(NilUUID), UUIDV(SomeUUID)}

\* String(opts...), Int(opts...), Int16(opts...), UUID(opts...)
Construct(T, os) == IF T = "uuid" THEN UUID(os) ELSE newGenerator(T, os)

NoResult == [valid |-> FALSE, value |-> Nil, errors |-> <<>>, panicked |-> FALSE]

\* no Unmarshal call yet: no target, nothing returned
NoTarget == [k |-> "none", m |-> <<>>, fields |-> <<>>]

NoReturn == [err |-> "", panicked |-> FALSE, target |-> NoTarget]

\* no Parse call in flight
NoCalls == <<>>

NoObject == [fields |-> <<>>, validators |-> <<>>, refiners |-> <<>>,
             maxBodySize |-> 0, err |-> NoErr]

\* no request: the fields of Request below, all empty
NoRequest ==
    [kind |-> "none", method |-> "", ctype |-> "", boundary |-> FALSE, clen |-> 0,
     body |-> [nil |-> TRUE, data |-> <<>>, parts |-> <<>>, pos |-> 0],
     query |-> <<>>,
     form |-> [set |-> FALSE, m |-> <<>>],
     multipart |-> [set |-> FALSE, files |-> <<>>]]

InitScalar ==
    /\ v = Construct("string", <<>>)
    /\ opts = <<>>
    /\ o = NoObject
    /\ declared = <<>>
    /\ req = NoRequest
    /\ input = Nil
    /\ res = NoResult
    /\ evaluated = <<>>
    /\ target = NoTarget
    /\ ret = NoReturn
    /\ procs = NoCalls
    /\ op = "start"

\* the schema is built once, by one constructor call
NewValidator ==
    /\ op = "start"
    /\ \E T \in ScalarTypes : \E os \in OptSeqs(T, MaxOpts) :
          /\ v' = Construct(T, os)
          /\ opts' = os
    /\ op' = "built"
    /\ UNCHANGED <<procs, target, ret, o, declared, req, input, res, evaluated>>

\* v.Parse(x)
ParseScalar ==
    /\ op # "start"
    /\ \E x \in ScalarInputs :
          LET r == validator_Parse(v, x)
          IN /\ v' = r.self
             /\ res' = r.res
             /\ evaluated' = r.evaluated
             /\ input' = x
    /\ op' = "Parse"
    /\ UNCHANGED <<procs, target, ret, opts, o, declared, req>>

NextScalar == NewValidator \/ ParseScalar

SpecScalar == InitScalar /\ [][NextScalar]_vars

\* ------------------------------------------------- properties: scalar Parse

\* the indices of the rules that val fails
FailingRules(options, val) ==
    {i \in 1..Len(options) : ApplyRule(options[i], val) # NoErr}

\* the k-th smallest member of a set of indices
Kth(S, k) == CHOOSE i \in S : Cardinality({j \in S : j < i}) = k - 1

\* the result runs every rule on val: all indices in order, the errors of the
\* failing rules in rule order, valid iff there is none, the value when valid
RanAllRules(val) ==
    LET failing == FailingRules(v.options, val)
    IN /\ evaluated = [i \in 1..Len(v.options) |-> i]
       /\ Len(res.errors) = Cardinality(failing)
       /\ \A k \in 1..Len(res.errors) :
             res.errors[k] = ApplyRule(v.options[Kth(failing, k)], val)
       /\ res.valid <=> failing = {}
       /\ res.valid => res.value = val

\* C1: for every scalar validator and every input that coerces successfully,
\* Parse applies all its rules, returns exactly the errors of the failing rules
\* in rule-declaration order, and is valid iff no rule failed.
C1_AllRulesEvaluated ==
    (op = "Parse" /\ v.err = NoErr /\ validator_convert(v, input).st = "ok")
        => RanAllRules(validator_convert(v, input).val)

\* one Parse call returned two errors for one value
C1_Witness ==
    /\ op = "Parse"
    /\ v.err = NoErr
    /\ validator_convert(v, input).st = "ok"
    /\ Len(res.errors) >= 2

\* what Parse(nil) gives by the precedence default > required > optional
NilPrecedence ==
    IF v.defaultValue.set THEN RanAllRules(v.defaultValue.val)
    ELSE IF v.required
    THEN /\ ~res.valid
         /\ res.errors = <<RequiredPropertyMissingError>>
         /\ evaluated = <<>>
    ELSE /\ res.valid
         /\ res.errors = <<>>
         /\ res.value = Zero(v.T)
         /\ evaluated = <<>>

\* C2 as stated: for every scalar validator, Parse(nil) follows the precedence
\* default > required > optional.
C2_Original == (op = "Parse" /\ input = Nil) => NilPrecedence

\* C2: for every scalar validator built without a build error, Parse(nil) uses
\* the default when one is configured (even if required); otherwise, if
\* required, gives exactly the missing-required-property error and runs no
\* rule; otherwise gives a valid zero-value result and runs no rule.
C2_NilPrecedence == (op = "Parse" /\ input = Nil /\ v.err = NoErr) => NilPrecedence

\* nil was parsed by a validator that is required and has a default, and the
\* default was returned
C2_Witness ==
    /\ op = "Parse" /\ input = Nil /\ v.err = NoErr
    /\ v.required /\ v.defaultValue.set
    /\ res.valid /\ res.value = v.defaultValue.val

DefaultOpts(os) == {i \in 1..Len(os) : os[i].o = "WithDefault"}

\* the argument d of the last WithDefault(d) handed to the constructor
LastDefault(os) == os[CHOOSE i \in DefaultOpts(os) : \A j \in DefaultOpts(os) : j <= i].val

\* two Parse calls in succession, the first of nil and the second of d
NilThenDefault ==
    /\ op = "Parse" /\ input = Nil
    /\ DefaultOpts(opts) # {}
    /\ op' = "Parse" /\ input' = LastDefault(opts)

\* C3 as stated: for every scalar validator configured with WithDefault(d),
\* Parse(nil) returns the same result as Parse(d) (looked at where Parse(d)
\* returns a result).
C3_Original == [][(NilThenDefault /\ ~res'.panicked) => res' = res]_vars

\* d is a T, or the validator has no transformer and d is of another kind
DefaultOfTargetType(os) ==
    LET d == LastDefault(os)
    IN \/ d.p = "val" /\ d.t = v.T
       \/ v.transformerFn = "" /\ KindOf(d) # KindOfType(v.T)

\* C3: for every scalar validator configured with WithDefault(d), where d has
\* the target type or (for a validator without transformer) a type of another
\* kind, Parse(nil) returns the same result as Parse(d): the default goes
\* through the declared rules.
C3_DefaultRoundTrip ==
    [][(NilThenDefault /\ DefaultOfTargetType(opts)) => res' = res]_vars

\* Parse(nil) ran the rules on the default and the default failed one
C3_Witness ==
    /\ op = "Parse" /\ input = Nil
    /\ DefaultOpts(opts) # {} /\ DefaultOfTargetType(opts)
    /\ v.defaultValue.set /\ v.err = NoErr
    /\ ~res.valid /\ res.errors # <<>> /\ evaluated # <<>>

\* Parse of a validator with a build error fails with the one error e and
\* runs no rule
FailsWithOnly(e) ==
    /\ ~res.valid
    /\ ~res.panicked
    /\ res.errors = <<e>>
    /\ evaluated = <<>>

\* C4 as stated: a validator with a recorded build error fails every Parse
\* with a result whose single error is that recorded build error.
C4_Original == (op = "Parse" /\ v.err # NoErr) => FailsWithOnly(v.err)

\* C4: a scalar validator whose construction recorded a build error fails
\* every later Parse, for every input including nil and otherwise-valid values,
\* with an invalid result whose single error is the invalid-validator-state
\* error (not the recorded build error); no rule runs.
C4_BuildErrorSticky ==
    (op = "Parse" /\ v.err # NoErr) => FailsWithOnly(InvalidValidatorStateError)

\* a value of the target type was parsed by a validator with a build error
C4_Witness ==
    /\ op = "Parse" /\ v.err # NoErr
    /\ input.p = "val" /\ input.t = v.T
    /\ Len(v.options) > 0
    /\ res.errors = <<InvalidValidatorStateError>>

\* ------------------------------------------------------- structured values

\* the field names a schema declares and an input carries
FieldNames == <<"A", "B">>

NameIndex(name) == CHOOSE i \in 1..Len(FieldNames) : FieldNames[i] = name

\* the bytes of a name, as a JSON or form key spells it
NameBytes(name) == IF name = "A" THEN <<65>> ELSE <<66>>

\* the entry of a key the map does not hold, or of a field the struct lacks
Missing == Val("missing", 0, <<>>)

NoEntries == [i \in 1..Len(FieldNames) |-> Missing]

\* map[string]T with the entries m (by NameIndex); keys that are no field name
\* are never looked up and are left out
MapV(m) == [Val("map", 0, <<>>) EXCEPT !.m = m]

\* a struct value with the exported fields m
StructV(m) == [Val("struct", 0, <<>>) EXCEPT !.m = m]

\* a map whose key type is not string, such as map[int]string
IntKeyMap == Val("intmap", 0, <<>>)

\* []File of n uploaded files
FilesV(n) == Val("files", 10 * n, <<>>)

\* m[key] = val
SetEntry(m, key, val) ==
    [i \in 1..Len(m) |-> IF NameBytes(FieldNames[i]) = key THEN val ELSE m[i]]

\* m[key] = append(m[key], val) as Get(key) reads it back: the first value stays
AddEntry(m, key, val) ==
    [i \in 1..Len(m) |->
        IF NameBytes(FieldNames[i]) = key /\ m[i] = Missing THEN val ELSE m[i]]

\* the index of the first byte c of s at or after i; 0 when there is none
IndexFrom(s, c, i) ==
    IF \E j \in i..Len(s) : s[j] = c
    THEN CHOOSE j \in i..Len(s) : s[j] = c /\ \A k \in i..(j - 1) : s[k] # c
    ELSE 0

\* the last index of the run of digits that starts at i; i - 1 when s[i] is
\* no digit
DigitsEnd(s, i) ==
    CHOOSE j \in (i - 1)..Len(s) :
        /\ \A k \in i..j : IsDigit(s[k])
        /\ j = Len(s) \/ ~IsDigit(s[j + 1])

\* ---------------------------------------------------------- json.Unmarshal

JSONError == Failed(NewError("unmarshalling JSON value", "json"))

RECURSIVE jsonMembers(_, _, _)

\* after a member value that ended before index i: a comma and the next
\* member, or the closing brace at the very end
jsonNext(s, i, m) ==
    CASE i > Len(s) -> JSONError
      [] s[i] = 125 -> IF i = Len(s) THEN Ok(MapV(m)) ELSE JSONError
      [] s[i] = 44 -> jsonMembers(s, i + 1, m)
      [] OTHER -> JSONError

\* a quoted string that ends at index e, or a number whose digits end at e
jsonString(s, key, i, e, m) ==
    IF e = 0 THEN JSONError
    ELSE jsonNext(s, e + 1, SetEntry(m, key, StrV(SubSeq(s, i + 1, e - 1))))

jsonNumber(s, key, i, e, m) ==
    IF e < i THEN JSONError
    ELSE jsonNext(s, e + 1,
                  SetEntry(m, key, FloatV(10 * DigitsValue(SubSeq(s, i, e)))))

\* the value of the member key, which starts at index i: a string becomes a
\* string and a number a float64
jsonValue(s, key, i, m) ==
    CASE i > Len(s) -> JSONError
      [] s[i] = 34 -> The({jsonString(s, key, i, e, m) : e \in {IndexFrom(s, 34, i + 1)}})
      [] OTHER -> The({jsonNumber(s, key, i, e, m) : e \in {DigitsEnd(s, i)}})

\* the member whose key is quoted between i and kq
jsonMember(s, i, kq, m) ==
    IF kq = 0 \/ kq + 1 > Len(s) \/ s[kq + 1] # 58 THEN JSONError
    ELSE jsonValue(s, SubSeq(s, i + 1, kq - 1), kq + 2, m)

\* the members from index i on, added to m (a repeated key keeps the last)
jsonMembers(s, i, m) ==
    IF i > Len(s) \/ s[i] # 34 THEN JSONError
    ELSE The({jsonMember(s, i, kq, m) : kq \in {IndexFrom(s, 34, i + 1)}})

\* json.Unmarshal(val, &unpacked) for unpacked a map[string]interface{}, on
\* the payloads of this model: one object of string and unsigned integer
\* members, written without white space or escapes
Unmarshal(s) ==
    CASE Len(s) < 2 \/ s[1] # 123 -> JSONError
      [] s[2] = 125 -> IF Len(s) = 2 THEN Ok(MapV(NoEntries)) ELSE JSONError
      [] OTHER -> jsonMembers(s, 2, NoEntries)

\* ------------------------------------------------------------ url.ParseQuery

\* a percent sign that two hex digits do not follow
BadEscape(x) ==
    \E i \in 1..Len(x) :
        /\ x[i] = 37
        /\ ~(i + 2 <= Len(x) /\ HexVal(x[i + 1]) >= 0 /\ HexVal(x[i + 2]) >= 0)

NoValues == [m |-> NoEntries, err |-> ""]

QueryError(vs, e) == [vs EXCEPT !.err = IF @ = "" THEN e ELSE @]

\* key=value split at the first "=" (eq = 0: the pair is a bare key)
queryKeyValue(pair, eq, vs) ==
    LET key == IF eq = 0 THEN pair ELSE SubSeq(pair, 1, eq - 1)
        value == IF eq = 0 THEN <<>> ELSE SubSeq(pair, eq + 1, Len(pair))
    IN IF BadEscape(key) \/ BadEscape(value) THEN QueryError(vs, "invalid URL escape")
       ELSE [vs EXCEPT !.m = AddEntry(@, key, StrV(value))]

\* one pair of the query: a pair with a semicolon or a bad escape is dropped
\* and the first such error is kept
queryPair(pair, vs) ==
    CASE pair = <<>> -> vs
      [] \E i \in 1..Len(pair) : pair[i] = 59 ->
            QueryError(vs, "invalid semicolon separator in query")
      [] OTHER -> The({queryKeyValue(pair, eq, vs) : eq \in {IndexFrom(pair, 61, 1)}})

RECURSIVE queryFrom(_, _, _)

\* the pair that starts at i and ends before the separator at amp
queryAt(s, i, amp, vs) ==
    IF amp = 0 THEN queryPair(SubSeq(s, i, Len(s)), vs)
    ELSE The({queryFrom(s, amp + 1, next) : next \in {queryPair(SubSeq(s, i, amp - 1), vs)}})

queryFrom(s, i, vs) ==
    IF i > Len(s) THEN vs
    ELSE The({queryAt(s, i, amp, vs) : amp \in {IndexFrom(s, 38, i)}})

\* url.ParseQuery(s): the values and the first error, on queries without
\* valid escapes or "+"
ParseQuery(s) == queryFrom(s, 1, NoValues)

\* --------------------------------------------------------- object validator

\* the maxBodySize Object() starts with: 10 MiB
DefaultMaxBodySize == 10485760

\* objectValidator: fields is the declaration order, validators the map from
\* name to child (by NameIndex; kind "none" where the map has no entry),
\* refiners the functions added with Refine, by name
ObjectValidator(fields, validators, refiners, maxBodySize, err) ==
    [fields |-> fields, validators |-> validators, refiners |-> refiners,
     maxBodySize |-> maxBodySize, err |-> err]

NoChild == [kind |-> "none", v |-> Validator("", "", <<>>, NoDefault, FALSE, NoErr),
            o |-> NoObject]

NoValidators == [i \in 1..Len(FieldNames) |-> NoChild]

\* &validatorWrapper[T]{validator: ...}
ScalarChild(child) == [kind |-> "scalar", v |-> child, o |-> NoObject]

\* &objectValidatorWrapper{validator: ...}
ObjectChild(child) == [kind |-> "object", v |-> NoChild.v, o |-> child]

WithMaxBodySize(size) == [o |-> "WithMaxBodySize", size |-> size]

\* an objectValidatorOpt written inside the package that declares a String
\* field on the validator it is applied to:
\* func(o *objectValidator) error { o.String(name); return nil }
DeclaringString(name) == [o |-> "DeclaringString", name |-> name]

RECURSIVE ApplyObjectOpts(_, _)
\* the loop of Object: an objectValidatorOpt is applied (WithMaxBodySize and
\* DeclaringString return no error), anything else is skipped
ApplyObjectOpts(ov, os) ==
    IF os = <<>> THEN ov
    ELSE ApplyObjectOpts(CASE Head(os).o = "WithMaxBodySize" ->
                                 [ov EXCEPT !.maxBodySize = Head(os).size]
                           [] Head(os).o = "DeclaringString" ->
                                 [ov EXCEPT
                                     !.fields = Append(@, Head(os).name),
                                     !.validators[NameIndex(Head(os).name)] =
                                         ScalarChild(Construct("string", <<>>))]
                           [] OTHER -> ov,
                         Tail(os))

Object(os) ==
    ApplyObjectOpts(ObjectValidator(<<>>, NoValidators, <<>>, DefaultMaxBodySize, NoErr), os)

\* the constructor of the child of a String, UUID, ... field
validatorFactory(T, os) == Construct(T, os)

\* the constructor of the child of an Int, Float64, ... field
numericValidatorFactory(T, os) == newGenerator(T, os)

\* o.fields = append(o.fields, name); o.validators[name] = fv
declareField(ov, name, child) ==
    [ov EXCEPT !.fields = Append(@, name), !.validators[NameIndex(name)] = child]

objectValidator_String(ov, name, os) ==
    declareField(ov, name, ScalarChild(validatorFactory("string", os)))

objectValidator_Int(ov, name, os) ==
    declareField(ov, name, ScalarChild(numericValidatorFactory("int", os)))

objectValidator_Time(ov, name, os) ==
    declareField(ov, name, ScalarChild(validatorFactory("time", os)))

objectValidator_UUID(ov, name, os) ==
    declareField(ov, name, ScalarChild(validatorFactory("uuid", os)))

\* the child is a fresh Object(opts...): only an option can give it fields
objectValidator_Object(ov, name, os) == declareField(ov, name, ObjectChild(Object(os)))

objectValidator_Refine(ov, fn) == [ov EXCEPT !.refiners = Append(@, fn)]

\* ------------------------------------------------------------ object result

\* an entry of the result map: *parseResult[any]; set is FALSE where the map
\* has no entry
FieldResult(valid, value, errors) ==
    [valid |-> valid, value |-> value, errors |-> errors, set |-> TRUE]

NoField == [valid |-> FALSE, value |-> Nil, errors |-> <<>>, set |-> FALSE]

NoFields == [i \in 1..Len(FieldNames) |-> NoField]

\* what one Parse call hands back: the validator as the call leaves it, the
\* request as the call leaves it, the result, and the fields and refiners in
\* the order they were run
ParseOut(ov, r, result, events) ==
    [self |-> ov, req |-> r, res |-> result, evaluated |-> events]

Event(k, n) == [k |-> k, n |-> n]

\* IsFieldValid(field)
IsFieldValid(result, field) ==
    /\ result.value[NameIndex(field)].set
    /\ result.value[NameIndex(field)].valid

\* res.Append(valid, message, err), the call the refiner of the README makes:
\* one more error at the end of the list, and the result valid only if it was
\* and the caller says so
ResultAppend(result, valid, message, err) ==
    [result EXCEPT !.errors = Append(@, NewError(message, err)),
                   !.valid = @ /\ valid]

\* the refiners of this model: one reports an error whatever the fields gave,
\* one reports an error when field A passed
Refiners == {"always", "whenAValid"}

refine(fn, result) ==
    CASE fn = "always" -> ResultAppend(result, FALSE, "always", "refiner")
      [] IsFieldValid(result, "A") -> ResultAppend(result, FALSE, "A is valid", "refiner")
      [] OTHER -> result

\* ------------------------------------------------------------------ extract

\* extract(val, name): a pointer is followed; anything but a struct or a map
\* is an InvalidTypeError; a field or key that is not there (a time.Time has
\* no field of these names) is nil; a map whose keys are not strings makes
\* MapIndex panic
objectValidator_extract(val, name) ==
    CASE val.p = "nilptr" -> Failed(InvalidTypeError)
      [] KindOfType(val.t) \notin {"struct", "map"} -> Failed(InvalidTypeError)
      [] val.t = "intmap" -> Fault
      [] NameIndex(name) > Len(val.m) -> Ok(Nil)
      [] val.m[NameIndex(name)] = Missing -> Ok(Nil)
      [] OTHER -> Ok(val.m[NameIndex(name)])

\* ------------------------------------------------------------ http.Request

\* req.Body: nil, or a reader over data of which pos bytes have been read.  A
\* multipart body is held decoded, as the parts ReadForm finds in it.  The
\* reader sits behind io.NopCloser, as http.NewRequest makes it, so Close
\* leaves it as it is.
NoBody == [nil |-> TRUE, data |-> <<>>, parts |-> <<>>, pos |-> 0]

Body(data) == [nil |-> FALSE, data |-> data, parts |-> <<>>, pos |-> 0]

MultipartBody(parts) == [nil |-> FALSE, data |-> <<>>, parts |-> parts, pos |-> 0]

\* a part of a multipart body: a text field, or a file (its content is not
\* looked at)
Part(name, file, b) == [name |-> name, file |-> file, b |-> b]

\* *http.Request before any parsing: Form, PostForm and MultipartForm are nil.
\* ctype is the media type of the Content-Type header, boundary whether the
\* header has a boundary parameter, clen is ContentLength, query URL.RawQuery
Request(method, ctype, boundary, clen, body, query) ==
    [kind |-> "request", method |-> method, ctype |-> ctype, boundary |-> boundary,
     clen |-> clen, body |-> body, query |-> query,
     form |-> [set |-> FALSE, m |-> NoEntries],
     multipart |-> [set |-> FALSE, files |-> <<>>]]

\* the *http.Request a caller hands to Parse; what it points to is req
RequestV == PtrTo(Val("request", 0, <<>>))

Called(r, err) == [req |-> r, err |-> err]

\* copyValues: the values of b come after those of a, so Get reads a's first
MergeValues(a, b) == [i \in 1..Len(a) |-> IF a[i] # Missing THEN a[i] ELSE b[i]]

\* parsePostForm: the rest of a form-encoded body is read and parsed
parsePostForm(r) ==
    CASE r.body.nil -> [body |-> r.body, vs |-> QueryError(NoValues, "missing form body")]
      [] r.ctype = "application/x-www-form-urlencoded" ->
            [body |-> [r.body EXCEPT !.pos = Len(r.body.data)],
             vs |-> ParseQuery(SubSeq(r.body.data, r.body.pos + 1, Len(r.body.data)))]
      [] OTHER -> [body |-> r.body, vs |-> NoValues]

\* Form and PostForm are set even when an error is returned
formParsed(r, post, query) ==
    Called([r EXCEPT !.body = post.body,
                     !.form = [set |-> TRUE, m |-> MergeValues(post.vs.m, query.m)]],
           IF post.vs.err # "" THEN post.vs.err ELSE query.err)

\* a ParseForm that parses again on every call
ParseFormUncached(r) ==
    The({formParsed(r, post, query)
         : post \in {IF r.method \in {"POST", "PUT", "PATCH"}
                     THEN parsePostForm(r)
                     ELSE [body |-> r.body, vs |-> NoValues]},
           query \in {ParseQuery(r.query)}})

\* req.ParseForm(): once Form is set, a call does nothing and returns nil
Request_ParseForm(r) ==
    IF r.form.set THEN Called(r, "")
    ELSE The({formParsed(r, post, query)
              : post \in {IF r.method \in {"POST", "PUT", "PATCH"}
                          THEN parsePostForm(r)
                          ELSE [body |-> r.body, vs |-> NoValues]},
                query \in {ParseQuery(r.query)}})

RECURSIVE textParts(_, _, _)
\* the values of the text parts from the i-th on, added to m
textParts(parts, i, m) ==
    IF i > Len(parts) THEN m
    ELSE textParts(parts, i + 1,
                   IF parts[i].file THEN m
                   ELSE AddEntry(m, NameBytes(parts[i].name), StrV(parts[i].b)))

\* the names of the file parts, one per file
fileParts(parts) == SelectSeq(parts, LAMBDA part : part.file)

\* ParseMultipartForm after its ParseForm call
multipartParsed(pf) ==
    CASE pf.req.multipart.set -> Called(pf.req, "")
      [] pf.req.body.nil -> Called(pf.req, "missing form body")
      [] ~pf.req.boundary -> Called(pf.req, "no multipart boundary param in Content-Type")
      [] OTHER ->
            Called([pf.req EXCEPT
                       !.form.m = textParts(pf.req.body.parts, 1, @),
                       !.multipart = [set |-> TRUE, files |-> fileParts(pf.req.body.parts)]],
                   pf.err)

\* req.ParseMultipartForm(maxMemory)
Request_ParseMultipartForm(r) ==
    The({multipartParsed(pf) : pf \in {Request_ParseForm(r)}})

\* readForm(form): the first value of every key
objectValidator_readForm(form) == MapV(form.m)

\* readBody(body, size): make([]byte, size) panics for a negative size;
\* io.ReadFull reads nothing for size 0, calls Read on the body otherwise
\* (a nil body panics), and fails when fewer than size bytes are left
objectValidator_readBody(body, size) ==
    CASE size < 0 -> [body |-> body, out |-> Fault]
      [] size = 0 -> [body |-> body, out |-> Ok(BytesV(<<>>))]
      [] body.nil -> [body |-> body, out |-> Fault]
      [] Len(body.data) - body.pos >= size ->
            [body |-> [body EXCEPT !.pos = @ + size],
             out |-> Ok(BytesV(SubSeq(body.data, body.pos + 1, body.pos + size)))]
      [] OTHER ->
            [body |-> [body EXCEPT !.pos = Len(body.data)],
             out |-> Failed(NewError("reading request body",
                                     IF Len(body.data) = body.pos
                                     THEN "EOF" ELSE "unexpected EOF"))]

\* the number of files uploaded under the i-th field name
FilesNamed(files, i) == Len(SelectSeq(files, LAMBDA part : part.name = FieldNames[i]))

\* the loop over req.MultipartForm.File: the files of a name are appended to
\* formData[name], asserted to be a []File; a text field of that name makes
\* the assertion panic
withFiles(m, files) ==
    IF \E i \in 1..Len(m) : FilesNamed(files, i) > 0 /\ m[i] # Missing THEN Fault
    ELSE Ok(MapV([i \in 1..Len(m) |->
                     IF FilesNamed(files, i) > 0 THEN FilesV(FilesNamed(files, i))
                     ELSE m[i]]))

\* ------------------------------------------------------------- object Parse

RECURSIVE objectValidator_Parse(_, _, _)

\* what a child's Parse hands back: its result, and the child as the call
\* leaves it
ChildOut(result, child) == [res |-> result, child |-> child]

\* validatorWrapper.Parse: the child's result with the value as interface{}
validatorWrapper_Parse(child, val) ==
    The({ChildOut(r.res, [child EXCEPT !.v = r.self]) : r \in {validator_Parse(child.v, val)}})

\* res.Get() of an object result: the map[string]*parseResult[any] itself,
\* as a value
ResultMapV(m) == [Val("resultmap", 0, <<>>) EXCEPT !.m = m]

\* objectValidatorWrapper.Parse: the result of the nested object validator,
\* with its map as the value
objectValidatorWrapper_Parse(child, val) ==
    The({ChildOut(IF r.res.panicked THEN r.res
                  ELSE [r.res EXCEPT !.value = ResultMapV(@)],
                  [child EXCEPT !.o = r.self])
         : r \in {objectValidator_Parse(child.o, val, NoRequest)}})

\* the result of a field once extract has returned: an extraction error is
\* the field's own error, otherwise the child parses what was extracted
extracted(child, e) ==
    CASE e.st = "fault" -> ChildOut(Panicked, child)
      [] e.st = "err" ->
            ChildOut(Result(FALSE, Nil, <<NewError("failed to extract value", e.err.id)>>),
                     child)
      [] child.kind = "object" -> objectValidatorWrapper_Parse(child, e.val)
      [] OTHER -> validatorWrapper_Parse(child, e.val)

fieldResult(child, val, name) ==
    The({extracted(child, e) : e \in {objectValidator_extract(val, name)}})

\* the state of a Parse call in its loops: the validator, the result so far,
\* and the fields and refiners run so far
Loop(ov, result, events) == [self |-> ov, res |-> result, evaluated |-> events]

\* a field result that is stored and whose errors are appended, but that
\* leaves the valid flag as it was
storeKeepingValid(acc, name, fr) ==
    IF fr.res.panicked
    THEN Loop(acc.self, Panicked, Append(acc.evaluated, Event("field", name)))
    ELSE Loop([acc.self EXCEPT !.validators[NameIndex(name)] = fr.child],
              [acc.res EXCEPT
                  !.value[NameIndex(name)] =
                      FieldResult(fr.res.valid, fr.res.value, fr.res.errors),
                  !.errors = @ \o fr.res.errors],
              Append(acc.evaluated, Event("field", name)))

\* parseRes.value[name] = fieldResult; the field's errors are appended; an
\* invalid field makes the whole result invalid.  A panic of the child ends
\* the call.
storeFieldResult(acc, name, fr) ==
    IF fr.res.panicked
    THEN Loop(acc.self, Panicked, Append(acc.evaluated, Event("field", name)))
    ELSE Loop([acc.self EXCEPT !.validators[NameIndex(name)] = fr.child],
              [acc.res EXCEPT
                  !.value[NameIndex(name)] =
                      FieldResult(fr.res.valid, fr.res.value, fr.res.errors),
                  !.errors = @ \o fr.res.errors,
                  !.valid = @ /\ fr.res.valid],
              Append(acc.evaluated, Event("field", name)))

\* a turn of the loop that takes its name off the validator's own list
fieldStepConsuming(val, name, acc) ==
    The({Loop([next.self EXCEPT !.fields = IF @ = <<>> THEN @ ELSE Tail(@)],
              next.res, next.evaluated)
         : next \in {The({storeFieldResult(acc, name, fr)
                          : fr \in {fieldResult(acc.self.validators[NameIndex(name)],
                                                val, name)}})}})

\* one turn of the loop over the fields
fieldStep(val, name, acc) ==
    The({storeFieldResult(acc, name, fr)
         : fr \in {fieldResult(acc.self.validators[NameIndex(name)], val, name)}})

RECURSIVE runFields(_, _, _)
\* for _, name := range names
runFields(val, names, acc) ==
    IF names = <<>> \/ acc.res.panicked THEN acc
    ELSE The({runFields(val, Tail(names), next)
              : next \in {fieldStep(val, Head(names), acc)}})

RECURSIVE runRefiners(_, _)
\* for _, refiner := range o.refiners
runRefiners(refiners, acc) ==
    IF refiners = <<>> \/ acc.res.panicked THEN acc
    ELSE runRefiners(Tail(refiners),
                     Loop(acc.self, refine(Head(refiners), acc.res),
                          Append(acc.evaluated, Event("refiner", Head(refiners)))))

\* parseRes as the call makes it: valid, with an empty map and no errors
NewResult == Result(TRUE, NoFields, <<>>)

\* the fields in declaration order, then the refiners
fieldsThenRefiners(ov, val) ==
    The({runRefiners(ov.refiners, acc)
         : acc \in {runFields(val, ov.fields, Loop(ov, NewResult, <<>>))}})

\* Parse of a value that is neither a byte slice nor a request
parseValue(ov, val, r) ==
    The({ParseOut(acc.self, r, acc.res, acc.evaluated)
         : acc \in {fieldsThenRefiners(ov, val)}})

\* a result that carries one error and nothing else
ErrorResult(err) == Result(FALSE, NoFields, <<err>>)

unpacked(ov, u, r) ==
    IF u.st = "err" THEN ParseOut(ov, r, ErrorResult(u.err), <<>>)
    ELSE objectValidator_Parse(ov, u.val, r)

\* parseJSON(val): the payload is decoded to a map, which is parsed
objectValidator_parseJSON(ov, b, r) ==
    The({unpacked(ov, u, r) : u \in {Unmarshal(b)}})

\* case "application/json", once the body has been read
jsonBody(ov, r, rb) ==
    CASE rb.out.st = "fault" -> ParseOut(ov, [r EXCEPT !.body = rb.body], Panicked, <<>>)
      [] rb.out.st = "err" ->
            ParseOut(ov, [r EXCEPT !.body = rb.body], ErrorResult(rb.out.err), <<>>)
      [] OTHER -> objectValidator_parseJSON(ov, rb.out.val.b, [r EXCEPT !.body = rb.body])

\* the form cases, once ParseForm has returned
formRead(ov, pf) ==
    IF pf.err # "" THEN ParseOut(ov, pf.req, ErrorResult(NewError("parsing form", pf.err)), <<>>)
    ELSE objectValidator_Parse(ov, objectValidator_readForm(pf.req.form), pf.req)

formWithFiles(ov, r, formData) ==
    IF formData.st = "fault" THEN ParseOut(ov, r, Panicked, <<>>)
    ELSE objectValidator_Parse(ov, formData.val, r)

\* case "multipart/form-data", once ParseMultipartForm has returned
multipartRead(ov, pf) ==
    IF pf.err # ""
    THEN ParseOut(ov, pf.req, ErrorResult(NewError("parsing multipart form", pf.err)), <<>>)
    ELSE The({formWithFiles(ov, pf.req, formData)
              : formData \in {withFiles(pf.req.form.m, pf.req.multipart.files)}})

\* a parseRequest that looks at the method before the content type
parseRequestMethodFirst(ov, r) ==
    CASE r.clen > ov.maxBodySize ->
            ParseOut(ov, r, ErrorResult(NewError("request body too large", "")), <<>>)
      [] r.method = "GET" ->
            The({formRead(ov, pf) : pf \in {Request_ParseForm(r)}})
      [] r.ctype = "application/json" ->
            The({jsonBody(ov, r, rb) : rb \in {objectValidator_readBody(r.body, r.clen)}})
      [] r.ctype = "application/x-www-form-urlencoded" ->
            The({formRead(ov, pf) : pf \in {Request_ParseForm(r)}})
      [] r.ctype = "multipart/form-data" ->
            The({multipartRead(ov, pf) : pf \in {Request_ParseMultipartForm(r)}})
      [] OTHER ->
            ParseOut(ov, r, ErrorResult(NewError("unsupported content type", "")), <<>>)

\* a parseRequest that turns away a body of exactly the maximum size
parseRequestCapInclusive(ov, r) ==
    CASE r.clen >= ov.maxBodySize ->
            ParseOut(ov, r, ErrorResult(NewError("request body too large", "")), <<>>)
      [] r.ctype = "application/json" ->
            The({jsonBody(ov, r, rb) : rb \in {objectValidator_readBody(r.body, r.clen)}})
      [] r.ctype = "application/x-www-form-urlencoded" ->
            The({formRead(ov, pf) : pf \in {Request_ParseForm(r)}})
      [] r.ctype = "multipart/form-data" ->
            The({multipartRead(ov, pf) : pf \in {Request_ParseMultipartForm(r)}})
      [] r.method = "GET" ->
            The({formRead(ov, pf) : pf \in {Request_ParseForm(r)}})
      [] OTHER ->
            ParseOut(ov, r, ErrorResult(NewError("unsupported content type", "")), <<>>)

\* parseRequest(req): the body is taken by content type
objectValidator_parseRequest(ov, r) ==
    CASE r.clen > ov.maxBodySize ->
            ParseOut(ov, r, ErrorResult(NewError("request body too large", "")), <<>>)
      [] r.ctype = "application/json" ->
            The({jsonBody(ov, r, rb) : rb \in {objectValidator_readBody(r.body, r.clen)}})
      [] r.ctype = "application/x-www-form-urlencoded" ->
            The({formRead(ov, pf) : pf \in {Request_ParseForm(r)}})
      [] r.ctype = "multipart/form-data" ->
            The({multipartRead(ov, pf) : pf \in {Request_ParseMultipartForm(r)}})
      [] r.method = "GET" ->
            The({formRead(ov, pf) : pf \in {Request_ParseForm(r)}})
      [] OTHER ->
            ParseOut(ov, r, ErrorResult(NewError("unsupported content type", "")), <<>>)

\* a Parse that hands the validator back with its refiners dropped
ParseDroppingRefiners(ov, val, r) ==
    [parseValue(ov, val, r) EXCEPT !.self = [ov EXCEPT !.refiners = <<>>]]

\* Parse(val): a validator with a build error answers with the state error
\* (and valid still true); a byte slice is JSON; a request is read by content
\* type (a nil *http.Request panics); anything else is looked up field by
\* field
objectValidator_Parse(ov, val, r) ==
    CASE ov.err # NoErr ->
            ParseOut(ov, r, Result(TRUE, NoFields, <<InvalidValidatorStateError>>), <<>>)
      [] val.p = "val" /\ val.t = "bytes" -> objectValidator_parseJSON(ov, val.b, r)
      [] val.t = "request" /\ val.p = "nilptr" -> ParseOut(ov, r, Panicked, <<>>)
      [] val.t = "request" -> objectValidator_parseRequest(ov, r)
      [] OTHER -> parseValue(ov, val, r)

\* ---------------------------------------------------- object specification

\* the longest chain of field declarations, and of Refine calls, on a schema
MaxFields == 2

MaxRefiners == 2

\* {"A":"01234","B":"7"}
JSONBoth == <<123, 34, 65, 34, 58, 34, 48, 49, 50, 51, 52, 34, 44,
              34, 66, 34, 58, 34, 55, 34, 125>>

\* {"A":"a1","B":7}
JSONShortA == <<123, 34, 65, 34, 58, 34, 97, 49, 34, 44, 34, 66, 34, 58, 55, 125>>

\* {"A":
JSONCut == <<123, 34, 65, 34, 58>>

\* A=01234&B=7
FormBoth == <<65, 61, 48, 49, 50, 51, 52, 38, 66, 61, 55>>

\* A=%zz&B=7
FormBadEscape == <<65, 61, 37, 122, 122, 38, 66, 61, 55>>

\* {"A":""}, as long as the body size given to WithMaxBodySize in this model
JSONEmptyA == <<123, 34, 65, 34, 58, 34, 34, 125>>

\* A=a1&B=7
FormShortA == <<65, 61, 97, 49, 38, 66, 61, 55>>

\* A=a1
QueryA == <<65, 61, 97, 49>>

\* the rules and options the fields of the schemas are declared with
StringFieldOpts == <<RuleOpt(Rule("MinLength", 5, "", "")),
                     RuleOpt(Rule("Matches", 0, "^[0-9]*$", ""))>>

IntFieldOpts == <<Required>>

\* an input of Parse: the value handed over and, for a *http.Request, the
\* request it points to
Input(val, r) == [val |-> val, req |-> r]

NativeInputs ==
    {Input(x, NoRequest) :
        x \in {MapV(<<StrV(Str01234), StrV(Str7)>>),
               MapV(<<StrV(StrA1), StrV(StrA1)>>),
               MapV(<<StrV(StrA1), Missing>>),
               MapV(NoEntries),
               MapV(<<NilPtr("string"), StrV(Str01234)>>),
               MapV(<<Nil, IntV(7)>>),
               MapV(<<MyIntV(5), StrV(Str7)>>),
               MapV(<<BytesV(JSONCut), StrV(Str7)>>),
               StructV(<<StrV(Str01234), StrV(Str7)>>),
               PtrTo(StructV(<<StrV(StrA1), StrV(StrA1)>>)),
               PtrTo(MapV(<<StrV(Str01234), Missing>>)),
               IntKeyMap, Nil, IntV(7), NilPtr("struct"), StrV(StrA1), PtrTo(IntV(7)),
               BytesV(JSONBoth), BytesV(JSONShortA), BytesV(JSONCut)}}

RequestInputs ==
    {Input(RequestV, r) :
        r \in {Request("POST", "application/json", FALSE, Len(JSONBoth), Body(JSONBoth), <<>>),
               Request("POST", "application/json", FALSE, 0 - 1, Body(JSONBoth), <<>>),
               Request("POST", "application/json", FALSE, 0, NoBody, <<>>),
               Request("POST", "application/json", FALSE, 5, NoBody, <<>>),
               Request("POST", "application/json", FALSE, Len(JSONBoth) + 9, Body(JSONBoth), <<>>),
               Request("POST", "application/json", FALSE, DefaultMaxBodySize + 1,
                       Body(JSONBoth), <<>>),
               Request("POST", "application/x-www-form-urlencoded", FALSE, Len(FormBoth),
                       Body(FormBoth), <<>>),
               Request("POST", "application/x-www-form-urlencoded", FALSE, Len(FormBadEscape),
                       Body(FormBadEscape), QueryA),
               Request("GET", "", FALSE, 0, NoBody, QueryA),
               Request("GET", "application/x-www-form-urlencoded", FALSE, 0, NoBody,
                       FormBadEscape),
               Request("POST", "text/plain", FALSE, Len(QueryA), Body(QueryA), <<>>),
               Request("POST", "multipart/form-data", TRUE, 64,
                       MultipartBody(<<Part("A", FALSE, Str01234), Part("B", TRUE, <<>>)>>),
                       <<>>),
               Request("POST", "multipart/form-data", TRUE, 64,
                       MultipartBody(<<Part("A", FALSE, Str01234), Part("A", TRUE, <<>>)>>),
                       <<>>),
               Request("POST", "multipart/form-data", FALSE, 64,
                       MultipartBody(<<Part("A", FALSE, Str01234)>>), <<>>),
               Request("GET", "application/json", FALSE, Len(JSONShortA), Body(JSONShortA),
                       QueryA),
               Request("PUT", "", FALSE, Len(QueryA), Body(QueryA), QueryA),
               Request("POST", "application/json", FALSE, Len(JSONShortA), Body(JSONShortA),
                       <<>>),
               Request("POST", "application/json", FALSE, Len(JSONEmptyA), Body(JSONEmptyA),
                       <<>>),
               Request("POST", "application/x-www-form-urlencoded", FALSE, DefaultMaxBodySize,
                       Body(FormShortA), <<>>),
               Request("GET", "text/plain", FALSE, 0, NoBody, FormShortA),
               Request("POST", "multipart/form-data", TRUE, 64,
                       MultipartBody(<<Part("A", FALSE, StrA1), Part("B", FALSE, Str7)>>),
                       <<>>)}}

\* (*http.Request)(nil)
NilRequest == Input(NilPtr("request"), NoRequest)

ObjectInputs == NativeInputs \cup RequestInputs \cup {NilRequest}

NoInput == Input(Nil, NoRequest)

InitObject ==
    /\ v = Construct("string", <<>>)
    /\ opts = <<>>
    /\ o = NoObject
    /\ declared = <<>>
    /\ req = NoRequest
    /\ input = NoInput
    /\ res = NoResult
    /\ evaluated = <<>>
    /\ target = NoTarget
    /\ ret = NoReturn
    /\ procs = NoCalls
    /\ op = "start"

\* the schema is being put together: Object() has been called, Parse not yet
Building == op \in {"Object", "String", "Int", "UUID", "ObjectField", "Refine"}

\* u.Object(opts...)
NewObject ==
    /\ op = "start"
    /\ \E os \in {<<>>, <<WithMaxBodySize(8)>>} :
          /\ o' = Object(os)
          /\ opts' = os
    /\ op' = "Object"
    /\ UNCHANGED <<procs, target, ret, v, declared, req, input, res, evaluated>>

\* .String(name, MinLength(5), Matches("^[0-9]*$"))
DeclareString ==
    /\ Building
    /\ Len(o.fields) < MaxFields
    /\ \E i \in 1..Len(FieldNames) :
          /\ o' = objectValidator_String(o, FieldNames[i], StringFieldOpts)
          /\ declared' = Append(declared, FieldNames[i])
    /\ op' = "String"
    /\ UNCHANGED <<procs, target, ret, v, opts, req, input, res, evaluated>>

\* .Int(name, Required())
DeclareInt ==
    /\ Building
    /\ Len(o.fields) < MaxFields
    /\ \E i \in 1..Len(FieldNames) :
          /\ o' = objectValidator_Int(o, FieldNames[i], IntFieldOpts)
          /\ declared' = Append(declared, FieldNames[i])
    /\ op' = "Int"
    /\ UNCHANGED <<procs, target, ret, v, opts, req, input, res, evaluated>>

\* .Object(name)
DeclareObject ==
    /\ Building
    /\ Len(o.fields) < MaxFields
    /\ \E i \in 1..Len(FieldNames) :
          /\ o' = objectValidator_Object(o, FieldNames[i], <<>>)
          /\ declared' = Append(declared, FieldNames[i])
    /\ op' = "ObjectField"
    /\ UNCHANGED <<procs, target, ret, v, opts, req, input, res, evaluated>>

\* .Refine(fn)
Refine ==
    /\ Building
    /\ Len(o.refiners) < MaxRefiners
    /\ \E fn \in Refiners : o' = objectValidator_Refine(o, fn)
    /\ op' = "Refine"
    /\ UNCHANGED <<procs, target, ret, v, opts, declared, req, input, res, evaluated>>

\* the assignments of a Parse call
Returned(r) ==
    /\ o' = r.self
    /\ req' = r.req
    /\ res' = r.res
    /\ evaluated' = r.evaluated

\* o.Parse(x)
ParseObject ==
    /\ Building
    /\ \E x \in ObjectInputs :
          /\ Returned(objectValidator_Parse(o, x.val, x.req))
          /\ input' = x
    /\ op' = "Parse"
    /\ UNCHANGED <<procs, target, ret, v, opts, declared>>

\* o.Parse(x) once more, with the same x
ParseAgain ==
    /\ op = "Parse"
    /\ Returned(objectValidator_Parse(o, input.val, req))
    /\ op' = "ParseAgain"
    /\ UNCHANGED <<procs, target, ret, v, opts, declared, input>>

NextObject ==
    \/ NewObject
    \/ DeclareString
    \/ DeclareInt
    \/ DeclareObject
    \/ Refine
    \/ ParseObject
    \/ ParseAgain

SpecObject == InitObject /\ [][NextObject]_vars

\* ------------------------------------- object Parse ranging over the map

\* the constructor of a field's child where the validators are kept in the
\* map alone: the generator of T, with no transformer
validatorWrapperFactory(T, os) == ScalarChild(newGenerator(T, os))

\* o.validators[name] = fv
objectValidator_String006(ov, name, os) ==
    [ov EXCEPT !.validators[NameIndex(name)] = validatorWrapperFactory("string", os)]

objectValidator_Int006(ov, name, os) ==
    [ov EXCEPT !.validators[NameIndex(name)] = validatorWrapperFactory("int", os)]

\* the keys of o.validators
DeclaredNames(ov) ==
    {FieldNames[i] : i \in {j \in 1..Len(FieldNames) : ov.validators[j].kind # "none"}}

\* the orders in which a range over a map with the keys S can take them
Orders(S) ==
    {f \in [1..Cardinality(S) -> S] : \A i, j \in 1..Cardinality(S) : i # j => f[i] # f[j]}

\* for name, validator := range o.validators, taking the keys in the order
\* names
rangeValidators(ov, val, names) ==
    The({ParseOut(acc.self, NoRequest, acc.res, acc.evaluated)
         : acc \in {runFields(val, names, Loop(ov, NewResult, <<>>))}})

unpacked006(ov, u, names) ==
    IF u.st = "err" THEN ParseOut(ov, NoRequest, ErrorResult(u.err), <<>>)
    ELSE rangeValidators(ov, u.val, names)

\* Parse(val) of the validator without a field list, for a val that is no
\* request
objectValidator_Parse006(ov, val, names) ==
    CASE ov.err # NoErr ->
            ParseOut(ov, NoRequest, Result(TRUE, NoFields, <<InvalidValidatorStateError>>), <<>>)
      [] val.p = "val" /\ val.t = "bytes" ->
            The({unpacked006(ov, u, names) : u \in {Unmarshal(val.b)}})
      [] OTHER -> rangeValidators(ov, val, names)

\* the declaration order of the map's keys: a name declared again replaces
\* its validator and stays where it was declared first
declaredOnce(names, name) ==
    IF \E k \in 1..Len(names) : names[k] = name THEN names ELSE Append(names, name)

\* .String(name, MinLength(5), Matches("^[0-9]*$"))
DeclareString006 ==
    /\ Building
    /\ Len(declared) < MaxFields
    /\ \E i \in 1..Len(FieldNames) :
          /\ o' = objectValidator_String006(o, FieldNames[i], StringFieldOpts)
          /\ declared' = declaredOnce(declared, FieldNames[i])
    /\ op' = "String"
    /\ UNCHANGED <<procs, target, ret, v, opts, req, input, res, evaluated>>

\* .Int(name, Required())
DeclareInt006 ==
    /\ Building
    /\ Len(declared) < MaxFields
    /\ \E i \in 1..Len(FieldNames) :
          /\ o' = objectValidator_Int006(o, FieldNames[i], IntFieldOpts)
          /\ declared' = declaredOnce(declared, FieldNames[i])
    /\ op' = "Int"
    /\ UNCHANGED <<procs, target, ret, v, opts, req, input, res, evaluated>>

\* o.Parse(x), the range over the map taking some order
ParseObject006 ==
    /\ op # "start"
    /\ \E x \in NativeInputs : \E names \in Orders(DeclaredNames(o)) :
          /\ Returned(objectValidator_Parse006(o, x.val, names))
          /\ input' = x
    /\ op' = "Parse"
    /\ UNCHANGED <<procs, target, ret, v, opts, declared>>

NextObject006 ==
    \/ NewObject
    \/ DeclareString006
    \/ DeclareInt006
    \/ ParseObject006

SpecObject006 == InitObject /\ [][NextObject006]_vars

\* ------------------------------- the validators that keep no error list

\* convert(val) for a non-nil val, where a value of another kind is converted
\* by reflection when its type allows it and goes to the transformer only
\* otherwise; the transformer's error is kept by its message
convertValue003(val_v, val) ==
    IF (IF val.p = "nilptr" THEN "invalid" ELSE KindOfType(val.t)) # KindOfType(val_v.T)
    THEN IF ConvertibleTo(val, val_v.T) THEN Convert(val, val_v.T)
         ELSE IF val_v.transformerFn = "" THEN Failed(MissingTransformerError)
         ELSE The({IF r.st = "err" THEN Failed(NewError(r.err.message, "")) ELSE r
                   : r \in {transformerFn(val_v, val)}})
    ELSE IF val.t = val_v.T THEN Ok([val EXCEPT !.p = "val"])
    ELSE Fault

validator_convert003(val_v, val) ==
    IF val # Nil THEN convertValue003(val_v, val)
    ELSE CASE nilInput(val_v) = "default" ->
                convertValue003(val_v, PtrTo(val_v.defaultValue.val))
           [] nilInput(val_v) = "required" -> Failed(RequiredPropertyMissingError)
           [] OTHER -> Absent

\* Parse(val) of that validator: the same steps around its own convert
validator_Parse003(val_v, val) ==
    IF val_v.err # NoErr
    THEN [self |-> val_v,
          res |-> Result(FALSE, Zero(val_v.T), <<InvalidValidatorStateError>>),
          evaluated |-> <<>>]
    ELSE The({parseConverted(val_v, c) : c \in {validator_convert003(val_v, val)}})

\* o.validators[name] = String(opts...)
objectValidator_StringOld(ov, name, os) ==
    [ov EXCEPT !.validators[NameIndex(name)] = ScalarChild(newGenerator("string", os))]

\* o.validators[name] = UUID(opts...)
objectValidator_UUIDOld(ov, name, os) ==
    [ov EXCEPT !.validators[NameIndex(name)] = ScalarChild(UUID(os))]

\* the result of a field once extract has returned
extractedOld(child, e) ==
    CASE e.st = "fault" -> ChildOut(Panicked, child)
      [] e.st = "err" ->
            ChildOut(Result(FALSE, Nil, <<NewError("failed to extract value", e.err.id)>>),
                     child)
      [] OTHER ->
            The({ChildOut(r.res, [child EXCEPT !.v = r.self])
                 : r \in {validator_Parse003(child.v, e.val)}})

\* parseRes.value[name] = ...; parseRes.valid = false for an invalid field.
\* Nothing is appended to parseRes.errors.
storeFieldOnly(acc, name, fr) ==
    IF fr.res.panicked
    THEN Loop(acc.self, Panicked, Append(acc.evaluated, Event("field", name)))
    ELSE Loop([acc.self EXCEPT !.validators[NameIndex(name)] = fr.child],
              [acc.res EXCEPT
                  !.value[NameIndex(name)] =
                      FieldResult(fr.res.valid, fr.res.value, fr.res.errors),
                  !.valid = @ /\ fr.res.valid],
              Append(acc.evaluated, Event("field", name)))

fieldStepOld(val, name, acc) ==
    The({storeFieldOnly(acc, name, fr)
         : fr \in {The({extractedOld(acc.self.validators[NameIndex(name)], e)
                        : e \in {objectValidator_extract(val, name)}})}})

RECURSIVE runFieldsOld(_, _, _)
\* for name, validator := range o.validators, taking the keys in the order
\* names
runFieldsOld(val, names, acc) ==
    IF names = <<>> \/ acc.res.panicked THEN acc
    ELSE The({runFieldsOld(val, Tail(names), next)
              : next \in {fieldStepOld(val, Head(names), acc)}})

rangeValidatorsOld(ov, val, names) ==
    The({ParseOut(acc.self, NoRequest, acc.res, acc.evaluated)
         : acc \in {runFieldsOld(val, names, Loop(ov, NewResult, <<>>))}})

unpackedOld(ov, u, names) ==
    IF u.st = "err" THEN ParseOut(ov, NoRequest, ErrorResult(u.err), <<>>)
    ELSE rangeValidatorsOld(ov, u.val, names)

\* Parse(val) of the validator that sets valid and stores the field results,
\* for a val that is no request
objectValidator_ParseOld(ov, val, names) ==
    IF val.p = "val" /\ val.t = "bytes"
    THEN The({unpackedOld(ov, u, names) : u \in {Unmarshal(val.b)}})
    ELSE rangeValidatorsOld(ov, val, names)

\* .String(name, MinLength(5), Matches("^[0-9]*$"))
DeclareStringOld ==
    /\ Building
    /\ Len(declared) < MaxFields
    /\ \E i \in 1..Len(FieldNames) :
          /\ o' = objectValidator_StringOld(o, FieldNames[i], StringFieldOpts)
          /\ declared' = Append(declared, FieldNames[i])
    /\ op' = "String"
    /\ UNCHANGED <<procs, target, ret, v, opts, req, input, res, evaluated>>

\* .UUID(name, Required())
DeclareUUIDOld ==
    /\ Building
    /\ Len(declared) < MaxFields
    /\ \E i \in 1..Len(FieldNames) :
          /\ o' = objectValidator_UUIDOld(o, FieldNames[i], <<Required>>)
          /\ declared' = Append(declared, FieldNames[i])
    /\ op' = "UUID"
    /\ UNCHANGED <<procs, target, ret, v, opts, req, input, res, evaluated>>

\* o.Parse(x), the range over the map taking some order
ParseObjectOld ==
    /\ op # "start"
    /\ \E x \in NativeInputs : \E names \in Orders(DeclaredNames(o)) :
          /\ Returned(objectValidator_ParseOld(o, x.val, names))
          /\ input' = x
    /\ op' = "Parse"
    /\ UNCHANGED <<procs, target, ret, v, opts, declared>>

NextObjectOld ==
    \/ NewObject
    \/ DeclareStringOld
    \/ DeclareUUIDOld
    \/ ParseObjectOld

SpecObjectOld == InitObject /\ [][NextObjectOld]_vars

\* ------------------------------------------------ properties: object Parse

\* a Parse call has returned or panicked
IsParse == op \in {"Parse", "ParseAgain"}

\* the last Parse call went through its loop over the fields and returned
ReachedFields == IsParse /\ ~res.panicked /\ evaluated # <<>>

RECURSIVE FieldErrors(_)
\* the error lists of the result map's entries for names, one after another
FieldErrors(names) ==
    IF names = <<>> THEN <<>>
    ELSE res.value[NameIndex(Head(names))].errors \o FieldErrors(Tail(names))

\* the field names in the order the last Parse call took them
FieldsRun ==
    LET events == SelectSeq(evaluated, LAMBDA e : e.k = "field")
    IN [i \in 1..Len(events) |-> events[i].n]

\* the error list starts with the errors of names, field by field
StartsWithFieldErrors(names) ==
    /\ Len(res.errors) >= Len(FieldErrors(names))
    /\ SubSeq(res.errors, 1, Len(FieldErrors(names))) = FieldErrors(names)

\* the errors that follow those of the declared fields
RefinerErrors == SubSeq(res.errors, Len(FieldErrors(declared)) + 1, Len(res.errors))

\* valid iff there is no error, in the result and in every entry of its map
ValidIffNoErrors ==
    /\ res.valid <=> res.errors = <<>>
    /\ \A i \in 1..Len(res.value) :
          res.value[i].set => (res.value[i].valid <=> res.value[i].errors = <<>>)

\* C5: in every Result a Parse call returns, the valid flag is true iff the
\* error list is empty; every failure comes with valid = false and a
\* non-empty error list.
C5_ValidIffNoErrors == (IsParse /\ ~res.panicked) => ValidIffNoErrors

\* C6: Object Parse evaluates the declared fields in declaration order, and
\* the top-level error list is the per-field error lists concatenated in that
\* order, with the refiners' errors after them, whatever order a map
\* iteration takes.
C6_DeclarationOrder ==
    ReachedFields => (FieldsRun = declared /\ StartsWithFieldErrors(declared))

\* the input of the last Parse call is a struct or a map, or a pointer to one
StructOrMapInput ==
    /\ KindOfType(input.val.t) \in {"struct", "map"}
    /\ input.val.p \in {"val", "ptr"}

\* the result map holds the child's result for every declared name, and
\* nothing else
OneEntryPerField ==
    \A i \in 1..Len(FieldNames) :
        IF \E k \in 1..Len(declared) : declared[k] = FieldNames[i]
        THEN LET fr == fieldResult(o.validators[i], input.val, FieldNames[i]).res
             IN res.value[i] = FieldResult(fr.valid, fr.value, fr.errors)
        ELSE ~res.value[i].set

\* C7: after Object Parse of any struct or map input, the result map holds
\* exactly one entry for every declared field, each the child validator's
\* result for the extracted value, whichever other fields failed.
C7_SiblingsEvaluated ==
    (op = "Parse" /\ StructOrMapInput) => (~res.panicked /\ OneEntryPerField)

\* no declared field has an error in its entry of the result map
NoFieldError == \A k \in 1..Len(declared) : res.value[NameIndex(declared[k])].errors = <<>>

C9_Original == [][op' = "ParseAgain" => res' = res]_vars

\* the first Parse of the request calls Read on its body: a JSON request
\* within the size limit, with a positive ContentLength and a body
ReadsBodyStream(x, ov) ==
    /\ x.req.kind = "request"
    /\ x.req.ctype = "application/json"
    /\ x.req.clen > 0 /\ x.req.clen <= ov.maxBodySize
    /\ ~x.req.body.nil

\* the first Parse of the request calls ParseForm or ParseMultipartForm, which
\* reports an error
FormParseFails(x, ov) ==
    /\ x.req.kind = "request"
    /\ x.req.clen <= ov.maxBodySize
    /\ \/ /\ x.req.ctype = "multipart/form-data"
          /\ Request_ParseMultipartForm(x.req).err # ""
       \/ /\ \/ x.req.ctype = "application/x-www-form-urlencoded"
             \/ x.req.ctype \notin {"application/json", "multipart/form-data"}
                /\ x.req.method = "GET"
          /\ Request_ParseForm(x.req).err # ""

\* C9: Parse twice in succession with the same input on the same schema
\* returns equal Results (and a call that panics, panics again), for every
\* input but a request whose first Parse reads its body stream or whose form
\* fails to parse.
C9_Idempotent ==
    [][(op' = "ParseAgain" /\ ~ReadsBodyStream(input, o) /\ ~FormParseFails(input, o))
          => res' = res]_vars

\* a form request was parsed twice and its fields were validated both times
C9_Witness ==
    /\ op = "ParseAgain"
    /\ input.req.kind = "request"
    /\ ~ReadsBodyStream(input, o) /\ ~FormParseFails(input, o)
    /\ req.form.set
    /\ Len(declared) >= 2
    /\ ReachedFields
    /\ res.errors # <<>>

\* C10: Parse leaves the schema unchanged: the field order, the children with
\* their rules, transformer, default, required flag and build error, the
\* refiners and the maximum body size are after the call what they were
\* before it.
C10_SchemaUnchanged == [][(op' \in {"Parse", "ParseAgain"}) => o' = o]_vars

\* a schema with fields and a refiner has parsed a request and rejected it
C10_Witness ==
    /\ op = "ParseAgain"
    /\ Len(o.fields) >= 2 /\ o.refiners # <<>>
    /\ input.req.kind = "request"
    /\ ReachedFields
    /\ ~res.valid

\* ------------------------------------------- properties: request dispatch

\* the last call was the first Parse of a request that is within the size limit
RequestInLimit ==
    /\ op = "Parse"
    /\ input.req.kind = "request"
    /\ input.req.clen <= o.maxBodySize

\* the branch the dispatch table gives a request: the content type first, the
\* method after it
TableBranch(r) ==
    CASE r.ctype = "application/json" -> "json"
      [] r.ctype = "application/x-www-form-urlencoded" -> "form"
      [] r.ctype = "multipart/form-data" -> "multipart"
      [] r.method = "GET" -> "query"
      [] OTHER -> "reject"

\* what a call leaves behind when the JSON branch took the request: the form
\* was never parsed, and the call panicked, failed on the body or on the JSON,
\* or went on to the fields
LooksJSON ==
    /\ ~req.form.set /\ ~req.multipart.set
    /\ \/ res.panicked
       \/ evaluated # <<>>
       \/ /\ Len(res.errors) = 1
          /\ res.errors[1].message \in {"reading request body", "unmarshalling JSON value"}
       \/ res.errors = <<>>

\* ... when a form branch took it: ParseForm was called and
\* ParseMultipartForm was not
LooksForm ==
    /\ req.form.set /\ ~req.multipart.set
    /\ \/ res.panicked
       \/ evaluated # <<>>
       \/ Len(res.errors) = 1 /\ res.errors[1].message = "parsing form"
       \/ res.errors = <<>>

\* ... when the multipart branch took it: ParseMultipartForm was called
LooksMultipart ==
    /\ req.form.set
    /\ \/ req.multipart.set
       \/ Len(res.errors) = 1 /\ res.errors[1].message = "parsing multipart form"

\* ... when no branch took it: one error, no field results, the request as it
\* was
LooksRejected ==
    /\ ~res.panicked
    /\ ~res.valid
    /\ Len(res.errors) = 1 /\ res.errors[1].message = "unsupported content type"
    /\ res.value = NoFields
    /\ evaluated = <<>>
    /\ req = input.req

\* C11: a request within the size limit is handled by exactly one branch,
\* chosen by content type first (JSON body, form, multipart form), by method
\* after it (GET: the query string); every other request gets an invalid
\* result with the single error "unsupported content type" and no field
\* results.
C11_DispatchTotalOrdered ==
    RequestInLimit =>
        /\ (TableBranch(input.req) = "json") <=> LooksJSON
        /\ (TableBranch(input.req) \in {"form", "query"}) <=> LooksForm
        /\ (TableBranch(input.req) = "multipart") <=> LooksMultipart
        /\ (TableBranch(input.req) = "reject") <=> LooksRejected
        /\ TableBranch(input.req) = "query" => req.body = input.req.body

\* a GET request that says it is JSON had its body read, not its query
C11_Witness ==
    /\ RequestInLimit
    /\ input.req.method = "GET"
    /\ input.req.ctype = "application/json"
    /\ input.req.query # <<>>
    /\ LooksJSON
    /\ evaluated # <<>>
    /\ Len(declared) >= 2

\* ------------------------------------------------ properties: body size cap

\* the result of a request that is turned away for its size: invalid, one
\* error, no field results
TooLarge ==
    /\ ~res.panicked
    /\ ~res.valid
    /\ Len(res.errors) = 1 /\ res.errors[1].message = "request body too large"
    /\ res.value = NoFields

\* C12: a request whose ContentLength exceeds the maximum body size (10 MiB,
\* or the size given to WithMaxBodySize) gets an invalid result with the one
\* error "request body too large" and no field results, and neither its body
\* nor its form is read, whatever its content type and method; a request of
\* exactly the maximum size is not turned away.
C12_BodySizeCap ==
    (op = "Parse" /\ input.req.kind = "request") =>
        /\ o.maxBodySize \in {DefaultMaxBodySize, WithMaxBodySize(8).size}
        /\ input.req.clen > o.maxBodySize =>
              (TooLarge /\ evaluated = <<>> /\ req = input.req)
        /\ input.req.clen <= o.maxBodySize => ~TooLarge

\* a multipart request over the size given to WithMaxBodySize was turned away
\* by a schema with fields
C12_Witness ==
    /\ op = "Parse"
    /\ input.req.kind = "request"
    /\ o.maxBodySize # DefaultMaxBodySize
    /\ input.req.clen > o.maxBodySize
    /\ input.req.clen < DefaultMaxBodySize
    /\ input.req.ctype = "multipart/form-data"
    /\ Len(declared) >= 2
    /\ TooLarge

\* ------------------------------------------ properties: request encodings

\* the flat payload A=01234, B=7, and the payload A=a1, B=7
PayloadBoth == MapV(<<StrV(Str01234), StrV(Str7)>>)

PayloadShortA == MapV(<<StrV(StrA1), StrV(Str7)>>)

\* r is a well-formed request that carries the bytes s in one of the four
\* encodings: a JSON body whose length is declared or unknown, a form body, or
\* the query string of a GET request
CarriesBytes(r, json, form) ==
    \/ /\ r.method = "POST" /\ r.ctype = "application/json"
       /\ r.body = Body(json) /\ r.clen \in {Len(json), 0 - 1} /\ r.query = <<>>
    \/ /\ r.method = "POST" /\ r.ctype = "application/x-www-form-urlencoded"
       /\ r.body = Body(form) /\ r.query = <<>>
    \/ /\ r.method = "GET" /\ r.ctype \notin {"application/json", "multipart/form-data"}
       /\ r.body = NoBody /\ r.query = form

\* r is a multipart request whose text parts are A=a1 and B=7
CarriesShortAParts(r) ==
    /\ r.method = "POST" /\ r.ctype = "multipart/form-data" /\ r.boundary
    /\ r.body = MultipartBody(<<Part("A", FALSE, StrA1), Part("B", FALSE, Str7)>>)

\* the result is the one the schema gives the payload as a map
SameAsNative(payload) ==
    /\ ~res.panicked
    /\ res = objectValidator_Parse(o, payload, NoRequest).res

\* C13: the same flat payload submitted as a JSON body, a URL-encoded body, a
\* multipart body or a GET query string gets equivalent results from the same
\* schema: the valid flag, the per-field values and the error list are those
\* of the payload itself, whatever the encoding.
C13_EncodingsEquivalent ==
    RequestInLimit =>
        /\ CarriesBytes(input.req, JSONBoth, FormBoth) => SameAsNative(PayloadBoth)
        /\ (CarriesBytes(input.req, JSONShortA, FormShortA) \/ CarriesShortAParts(input.req))
              => SameAsNative(PayloadShortA)

\* ------------------------------------------- properties: scalar coercion

\* the last call was Parse of a string, or of a pointer to one
StringInput == op = "Parse" /\ input.t = "string" /\ input.p \in {"val", "ptr"}

\* the validator is a Time validator with rules and no time format
TimeWithoutFormat == v.T = "time" /\ v.options # <<>> /\ v.transformerFn = ""

\* the result is invalid with err as its only error, and no rule was applied
FailsWithoutRules(err) ==
    /\ ~res.panicked
    /\ ~res.valid
    /\ res.errors = <<err>>
    /\ evaluated = <<>>

\* C14 as stated: a Time validator that has rules but no time format, given
\* any string, returns an invalid result whose only error is the
\* MissingTransformer sentinel, and applies no rule.
C14_Original ==
    (StringInput /\ TimeWithoutFormat) => FailsWithoutRules(MissingTransformerError)

\* C14: a Time validator that has rules but no time format and was built
\* without a build error, given any string, returns an invalid result whose
\* only error is the MissingTransformer sentinel, and applies no rule.
C14_MissingTransformer ==
    (StringInput /\ TimeWithoutFormat /\ v.err = NoErr)
        => FailsWithoutRules(MissingTransformerError)

\* a Time validator with NotBefore and NotAfter was given a year as a string
C14_Witness ==
    /\ StringInput /\ TimeWithoutFormat /\ v.err = NoErr
    /\ Len(v.options) >= 2
    /\ input = StrV(Str2005)
    /\ FailsWithoutRules(MissingTransformerError)

\* the input is a value, or a pointer to one, of a kind other than T's
OfAnotherKind ==
    /\ op = "Parse"
    /\ input # Nil
    /\ input.p \in {"val", "ptr"}
    /\ KindOfType(input.t) # KindOfType(v.T)

\* the transformer returns an error for the input: its coercion fails, or
\* what it returns does not convert to T
TransformerFails ==
    /\ OfAnotherKind
    /\ v.transformerFn # ""
    /\ LET r == coercion(v.transformerFn, input)
       IN r.st = "err" \/ (r.st = "ok" /\ ~ConvertibleTo(r.val, v.T))

\* the input is a string that is no number, for a numeric T without
\* transformer
NotANumber ==
    /\ OfAnotherKind
    /\ v.transformerFn = ""
    /\ v.T \in NumericKinds
    /\ input.t = "string"
    /\ ~ParseFloat(input.b).ok

StringForInteger ==
    /\ op = "Parse"
    /\ v.T \in IntegerKinds
    /\ input.t = "string" /\ input.p = "val"

\* ... a string that is a number with a fractional part
FractionalString ==
    /\ StringForInteger
    /\ ParseFloat(input.b).ok
    /\ ParseFloat(input.b).q % 10 # 0

\* the number of the input string with its fraction dropped, as a T
Truncated ==
    LET q == ParseFloat(input.b).q
    IN  Val(v.T, IF q >= 0 THEN q - (q % 10) ELSE 0 - ((0 - q) - ((0 - q) % 10)), <<>>)

NoMustBeInteger == \A i \in 1..Len(v.options) : v.options[i].kind # "MustBeInteger"

\* the validator was built without a build error and has no transformer
PlainValidator == v.err = NoErr /\ v.transformerFn = ""

\* the errors of the rules from the i-th on for the value val, in rule order
RECURSIVE RuleErrors(_, _)
RuleErrors(i, val) ==
    IF i > Len(v.options) THEN <<>>
    ELSE (IF ApplyRule(v.options[i], val) = NoErr THEN <<>>
          ELSE <<ApplyRule(v.options[i], val)>>) \o RuleErrors(i + 1, val)

NumberAgainstBounds ==
    /\ op = "Parse"
    /\ v.T \in NumericKinds /\ PlainValidator
    /\ input.t \in NumericKinds /\ input.p = "val"
    /\ v.options # <<>>
    /\ \A i \in 1..Len(v.options) : v.options[i].kind \in {"Min", "Max"}

\* the number the rules are applied to: the input converted to T
BoundedNumber == Convert(input, v.T).val

\* the number is below the bound of a Min rule, above the bound of a Max rule
OutOfBound(rule, val) ==
    IF rule.kind = "Min" THEN val.q < 10 * rule.n ELSE val.q > 10 * rule.n

\* what the rule says of a number out of its bound
BoundMessage(rule) ==
    IF rule.msg # "" THEN rule.msg
    ELSE IF rule.kind = "Min" THEN "number too small" ELSE "number too large"

RECURSIVE BoundErrors(_, _)
BoundErrors(i, val) ==
    IF i > Len(v.options) THEN <<>>
    ELSE (IF OutOfBound(v.options[i], val) THEN <<BoundMessage(v.options[i])>>
          ELSE <<>>) \o BoundErrors(i + 1, val)

TargetKeys == <<"A", "B", "Z">>

KeyIndex(name) == CHOOSE i \in 1..Len(TargetKeys) : TargetKeys[i] = name

\* a field of a struct target: its name, the names its tags give it, its
\* type, whether it is exported, and its value
StructField(name, tags, T, exported, value) ==
    [name |-> name, tags |-> tags, T |-> T, exported |-> exported, value |-> value]

\* the targets of Unmarshal: k is "map" for a map[string]interface{} with the
\* entries m (by KeyIndex), "nilmap" for a nil one, "strmap" for a
\* map[string]string, "ptrstruct" for a pointer to a struct with the given
\* fields, "struct" for the struct itself, "nilptr" for a nil pointer to it,
\* "nil" for nil and "int" for a number
Target(k, m, fields) == [k |-> k, m |-> m, fields |-> fields]

\* struct { Name string `json:"Z" form:"A"`; B int; note string `json:"A"`;
\*          Other int `json:"Z"` }
NamedFields ==
    <<StructField("Name", <<"Z", "A">>, "string", TRUE, StrV(StrA1)),
      StructField("B", <<>>, "int", TRUE, IntV(0)),
      StructField("note", <<"A">>, "string", FALSE, StrV(StrA1)),
      StructField("Other", <<"Z">>, "int", TRUE, IntV(7))>>

\* struct { A time.Time; Count int `json:"B"` }
TimedFields ==
    <<StructField("A", <<>>, "time", TRUE, TimeV(1)),
      StructField("Count", <<"B">>, "int", TRUE, IntV(0))>>

\* a struct as the value of a struct field, with its own fields
StructOf(fields) == [Val("struct", 0, <<>>) EXCEPT !.m = fields]

\* struct { A struct { A string; B string }; Count int `json:"B"` }
NestedFields ==
    <<StructField("A", <<>>, "struct", TRUE,
                  StructOf(<<StructField("A", <<>>, "string", TRUE, StrV(StrA1)),
                             StructField("B", <<>>, "string", TRUE, StrV(StrA1))>>)),
      StructField("Count", <<"B">>, "int", TRUE, IntV(0))>>

Targets ==
    {Target("ptrstruct", <<>>, NestedFields),
     Target("map", <<StrV(StrA1), Missing, IntV(7)>>, <<>>),
     Target("nilmap", <<Missing, Missing, Missing>>, <<>>),
     Target("strmap", <<StrV(StrA1), Missing, Missing>>, <<>>),
     Target("ptrstruct", <<>>, NamedFields),
     Target("ptrstruct", <<>>, TimedFields),
     Target("struct", <<>>, NamedFields),
     Target("nilptr", <<>>, <<>>),
     Target("nil", <<>>, <<>>),
     Target("int", <<>>, <<>>)}

\* what Unmarshal hands back: its error ("" for nil) and the target as the
\* call leaves it
Return(err, tgt) == [err |-> err, panicked |-> FALSE, target |-> tgt]

Panic(tgt) == [err |-> "", panicked |-> TRUE, target |-> tgt]

\* _, ok := r.value[name]
HasEntry(r, name) ==
    \E i \in 1..Len(FieldNames) : FieldNames[i] = name /\ r.value[i].set

\* the candidate source names of a struct field: its tag names in their
\* order, then the field name
extractTags(fieldName, sf) == sf.tags \o <<fieldName>>

\* field.Set(reflect.ValueOf(val)) panics unless val is a value of the
\* field's type
Assignable(val, T) == val.p = "val" /\ val.t = T

\* the result of the loop over the source names of one field: the field, and
\* how the loop ended (err is the error of a nested Unmarshal, "" for none)
FieldOut(field, panicked, err) == [field |-> field, panicked |-> panicked, err |-> err]

\* val.(*objectParseResult): what Parse stores for an object field is the
\* result's map (ResultMapV), which fails this assertion
IsObjectParseResult(val) == val.t = "objectParseResult"

RECURSIVE objectParseResult_Unmarshal(_, _)

RECURSIVE fromAliases(_, _, _)
\* the loop over the source names of one settable field: a name without an
\* entry is skipped; a field of kind struct is filled by Unmarshal of the
\* entry's value when that is an *objectParseResult and left alone when it
\* is anything else (a time.Time, the map of a nested result), and the loop
\* goes on; any other field is set from the first entry found
fromAliases(r, field, names) ==
    IF names = <<>> THEN FieldOut(field, FALSE, "")
    ELSE CASE ~HasEntry(r, Head(names)) -> fromAliases(r, field, Tail(names))
           [] KindOfType(field.T) = "struct" ->
                 IF IsObjectParseResult(r.value[NameIndex(Head(names))].value)
                 THEN The({IF n.panicked \/ n.err # ""
                           THEN FieldOut(field, n.panicked, n.err)
                           ELSE fromAliases(r, [field EXCEPT !.value.m = n.target.fields],
                                            Tail(names))
                           : n \in {objectParseResult_Unmarshal(
                                        [valid |-> r.value[NameIndex(Head(names))].value.q = 1,
                                         value |-> r.value[NameIndex(Head(names))].value.m],
                                        [k |-> "ptrstruct", m |-> <<>>,
                                         fields |-> field.value.m])}})
                 ELSE fromAliases(r, field, Tail(names))
           [] Assignable(r.value[NameIndex(Head(names))].value, field.T) ->
                 FieldOut([field EXCEPT !.value = r.value[NameIndex(Head(names))].value],
                          FALSE, "")
           [] OTHER -> FieldOut(field, TRUE, "")

\* field.CanSet(): the struct was reached through a pointer and the field is
\* exported
CanSet(tgt, i) == tgt.k = "ptrstruct" /\ tgt.fields[i].exported

RECURSIVE unmarshalToStruct(_, _, _)
\* the loop over the fields of the struct, from the i-th on
unmarshalToStruct(r, tgt, i) ==
    IF i > Len(tgt.fields) THEN Return("", tgt)
    ELSE IF ~CanSet(tgt, i) THEN unmarshalToStruct(r, tgt, i + 1)
    ELSE The({CASE f.panicked -> Panic(tgt)
                [] f.err # "" -> Return(f.err, tgt)
                [] OTHER -> unmarshalToStruct(r, [tgt EXCEPT !.fields[i] = f.field], i + 1)
              : f \in {fromAliases(r, tgt.fields[i],
                                   extractTags(tgt.fields[i].name, tgt.fields[i]))}})

\* target[k] = v.Get() for every entry of the result; an assignment to a nil
\* map panics
unmarshalToMap(r, tgt) ==
    IF tgt.k = "nilmap"
    THEN (IF \E i \in 1..Len(FieldNames) : r.value[i].set THEN Panic(tgt)
          ELSE Return("", tgt))
    ELSE Return("", [tgt EXCEPT !.m =
                        [i \in 1..Len(TargetKeys) |->
                            IF HasEntry(r, TargetKeys[i])
                            THEN r.value[NameIndex(TargetKeys[i])].value
                            ELSE tgt.m[i]]])

\* an Unmarshal that does not look at the valid flag
UnmarshalUnchecked(r, tgt) ==
    CASE tgt.k = "nil" -> Return("invalid target", tgt)
      [] tgt.k \in {"ptrstruct", "struct"} -> unmarshalToStruct(r, tgt, 1)
      [] tgt.k \in {"map", "nilmap"} -> unmarshalToMap(r, tgt)
      [] tgt.k = "strmap" -> Panic(tgt)
      [] OTHER -> Return("invalid target", tgt)

\* r.Unmarshal(target): an invalid result is refused; nil, a nil pointer and
\* anything that is neither struct nor map is an invalid target; a map that is
\* no map[string]interface{} fails the type assertion
objectParseResult_Unmarshal(r, tgt) ==
    CASE ~r.valid -> Return("cannot unmarshal invalid value", tgt)
      [] tgt.k = "nil" -> Return("invalid target", tgt)
      [] tgt.k \in {"ptrstruct", "struct"} -> unmarshalToStruct(r, tgt, 1)
      [] tgt.k \in {"map", "nilmap"} -> unmarshalToMap(r, tgt)
      [] tgt.k = "strmap" -> Panic(tgt)
      [] OTHER -> Return("invalid target", tgt)

\* the values handed to Parse before Unmarshal
UnmarshalInputs ==
    {MapV(<<MapV(<<StrV(Str01234), Missing>>), IntV(7)>>),
     MapV(<<BytesV(JSONCut), IntV(7)>>),
     MapV(<<StrV(Str01234), IntV(7)>>),
     MapV(<<TimeV(2005), IntV(7)>>),
     MapV(<<StrV(StrA1), IntV(7)>>),
     MapV(<<StrV(Str01234), Missing>>),
     MapV(NoEntries)}

\* .Time(name)
DeclareTime ==
    /\ Building
    /\ Len(o.fields) < MaxFields
    /\ \E i \in 1..Len(FieldNames) :
          /\ o' = objectValidator_Time(o, FieldNames[i], <<>>)
          /\ declared' = Append(declared, FieldNames[i])
    /\ op' = "ObjectField"
    /\ UNCHANGED <<procs, target, ret, v, opts, req, input, res, evaluated>>

\* .Object(name, opt), opt an option that declares the String field "A" on
\* the nested validator
DeclareNested ==
    /\ Building
    /\ Len(o.fields) < MaxFields
    /\ \E i \in 1..Len(FieldNames) :
          /\ o' = objectValidator_Object(o, FieldNames[i], <<DeclaringString("A")>>)
          /\ declared' = Append(declared, FieldNames[i])
    /\ op' = "ObjectField"
    /\ UNCHANGED <<procs, target, ret, v, opts, req, input, res, evaluated>>

\* res := o.Parse(x), x a map
ParseMap ==
    /\ Building
    /\ \E x \in UnmarshalInputs :
          /\ Returned(objectValidator_Parse(o, x, NoRequest))
          /\ input' = Input(x, NoRequest)
    /\ op' = "Parse"
    /\ UNCHANGED <<procs, target, ret, v, opts, declared>>

\* err := res.Unmarshal(target)
UnmarshalResult ==
    /\ op = "Parse"
    /\ ~res.panicked
    /\ \E tgt \in Targets :
          /\ target' = tgt
          /\ ret' = objectParseResult_Unmarshal(res, tgt)
    /\ op' = "Unmarshal"
    /\ UNCHANGED <<procs, v, opts, o, declared, req, input, res, evaluated>>

NextUnmarshal ==
    \/ NewObject
    \/ DeclareString
    \/ DeclareInt
    \/ DeclareTime
    \/ DeclareNested
    \/ ParseMap
    \/ UnmarshalResult

SpecUnmarshal == InitObject /\ [][NextUnmarshal]_vars

\* C18: Unmarshal of a result whose valid flag is false returns an error and
\* leaves the target, map or struct, exactly as it was before the call.
C18_InvalidIsHardError ==
    (op = "Unmarshal" /\ ~res.valid) =>
        /\ ~ret.panicked
        /\ ret.err # ""
        /\ ret.target = target

\* an invalid result with an entry that a field of the struct target names
\* was refused
C18_Witness ==
    /\ op = "Unmarshal" /\ ~res.valid
    /\ target.k = "ptrstruct"
    /\ \E i \in 1..Len(target.fields) :
          CanSet(target, i) /\ HasEntry(res, target.fields[i].name)
    /\ ret.err = "cannot unmarshal invalid value"

\* the names of the i-th field of the struct target that have an entry in
\* the result, by their place in the candidate order
Matching(i) ==
    LET names == extractTags(target.fields[i].name, target.fields[i])
    IN  {n \in 1..Len(names) : HasEntry(res, names[n])}

\* the entry named by the first candidate name of the i-th field that has one
FirstMatch(i) ==
    LET names == extractTags(target.fields[i].name, target.fields[i])
        n == CHOOSE n \in Matching(i) : \A k \in Matching(i) : n <= k
    IN  res.value[NameIndex(names[n])]

\* the target can hold the result: a map[string]interface{}, or a pointer to
\* a struct each of whose settable fields has the type of every entry one of
\* its names has
FittingTarget ==
    \/ target.k = "map"
    \/ /\ target.k = "ptrstruct"
       /\ \A i \in 1..Len(target.fields) :
             CanSet(target, i) =>
                \A n \in Matching(i) :
                    Assignable(res.value[NameIndex(extractTags(target.fields[i].name,
                                                               target.fields[i])[n])].value,
                               target.fields[i].T)

\* C19: Unmarshal of a valid result returns no error and copies every
\* validated field: into a map target, target[name] is the validated value of
\* every declared field; into a struct target, each settable field is set
\* from the entry named by the first of its candidate names (tags, then the
\* field name) that has one, and a field none of whose names has an entry is
\* left as it was.
C19_UnmarshalCopies ==
    (op = "Unmarshal" /\ res.valid /\ FittingTarget) =>
        /\ ~ret.panicked
        /\ ret.err = ""
        /\ target.k = "map" =>
              \A i \in 1..Len(FieldNames) :
                  (\E j \in 1..Len(o.fields) : o.fields[j] = FieldNames[i]) =>
                      ret.target.m[KeyIndex(FieldNames[i])] = res.value[i].value
        /\ target.k = "ptrstruct" =>
              \A i \in 1..Len(target.fields) :
                  CanSet(target, i) =>
                      ret.target.fields[i].value =
                          (IF Matching(i) = {} THEN target.fields[i].value
                           ELSE FirstMatch(i).value)

\* C19 for the targets whose settable fields with an entry are of no struct
\* kind
C19_ScalarFields ==
    (\A i \in 1..Len(target.fields) :
        (CanSet(target, i) /\ Matching(i) # {}) => KindOfType(target.fields[i].T) # "struct")
    => C19_UnmarshalCopies

\* Parse ended in a panic
ParseFaulted == op \in {"Parse", "ParseAgain"} /\ res.panicked

\* ... on a request of JSON content type whose length is unknown (-1)
FaultOnUnknownLength ==
    /\ ParseFaulted
    /\ input.req.kind = "request" /\ input.req.ctype = "application/json"
    /\ input.req.clen = 0 - 1

\* ... on a request of JSON content type and positive length whose body is nil
FaultOnNilBody ==
    /\ ParseFaulted
    /\ input.req.kind = "request" /\ input.req.ctype = "application/json"
    /\ input.req.clen > 0 /\ input.req.body.nil

\* ... on a multipart form with a text field and a file part of one name
FaultOnSharedName ==
    /\ ParseFaulted
    /\ input.req.kind = "request" /\ input.req.ctype = "multipart/form-data"
    /\ \E i, j \in 1..Len(input.req.body.parts) :
          /\ input.req.body.parts[i].name = input.req.body.parts[j].name
          /\ input.req.body.parts[i].file /\ ~input.req.body.parts[j].file

\* ... on a typed nil pointer: a nil *http.Request, or a nil pointer as the
\* value of a field
FaultOnNilPointer ==
    /\ ParseFaulted
    /\ \/ input.val.p = "nilptr"
       \/ \E i \in 1..Len(input.val.m) : input.val.m[i].p = "nilptr"

\* C20: Parse never faults: whatever value, pointer, byte payload or request
\* it is given, it returns a result and does not panic.
C20_ParseNeverFaults == op \in {"Parse", "ParseAgain"} => ~res.panicked

\* ------------------------------------- the UUID validator of src/u/ursa.go

UrsaInvalidTypeError == [id |-> "UrsaInvalidTypeError", message |-> "invalid type", inner |-> ""]

\* NonNullUUID(message...) of package u
u_NonNullUUID(rule, val) ==
    IF \E i \in 1..Len(val.b) : val.b[i] > 0 THEN NoErr
    ELSE RuleError(rule, "string too short")

\* UUID(opts...) of package u: &ursaUUID{options: opts}
u_UUID(os) == Validator("uuid", "", os, NoDefault, FALSE, NoErr)

RECURSIVE ursaUUID_options(_, _, _)
\* for _, opt := range u.options
ursaUUID_options(options, typedVal, i) ==
    IF i > Len(options) THEN NoRulesRun
    ELSE The({WithRule(i, err, rest)
              : err \in {u_NonNullUUID(options[i], typedVal)},
                rest \in {ursaUUID_options(options, typedVal, i + 1)}})

\* the type switch of ursaUUID.Parse: a uuid.UUID is taken as it is, a
\* *uuid.UUID is dereferenced unless nil, a string is parsed; anything else
\* leaves typedVal the zero UUID
ursaUUID_typed(val) ==
    CASE val.t = "uuid" /\ val.p \in {"val", "ptr"} -> Ok(UUIDV(val.b))
      [] val.t = "string" /\ val.p = "val" ->
            The({IF r.ok THEN Ok(UUIDV(r.u)) ELSE Failed(UrsaInvalidTypeError)
                 : r \in {ParseUUID(val.b)}})
      [] OTHER -> Ok(UUIDV(NilUUID))

\* (u *ursaUUID) Parse(val)
ursaUUID_Parse(u, val) ==
    The({IF t.st = "err"
         THEN [self |-> u, res |-> Result(FALSE, UUIDV(NilUUID), <<t.err>>),
               evaluated |-> <<>>]
         ELSE The({[self |-> u,
                    res |-> Result(run.errors = <<>>,
                                   IF run.errors = <<>> THEN t.val ELSE UUIDV(NilUUID),
                                   run.errors),
                    evaluated |-> run.evaluated]
                   : run \in {ursaUUID_options(u.options, t.val, 1)}})
         : t \in {ursaUUID_typed(val)}})

\* the rules a caller hands to UUID of package u
UrsaUUIDOpts == {Rule("NonNullUUID", 0, "", ""), Rule("NonNullUUID", 0, "", "null uuid")}

RECURSIVE UrsaOptSeqs(_)
UrsaOptSeqs(n) ==
    IF n = 0 THEN {<<>>}
    ELSE UrsaOptSeqs(n - 1)
         \cup {Append(s, opt) : s \in UrsaOptSeqs(n - 1), opt \in UrsaUUIDOpts}

UrsaUUIDInputs ==
    {Nil, IntV(0), IntV(7), FloatV(39), TimeV(2005), BytesV(SomeUUID),
     UUIDV(NilUUID), UUIDV(SomeUUID), PtrTo(UUIDV(NilUUID)), PtrTo(UUIDV(SomeUUID)),
     NilPtr("uuid"), StrV(UUIDString(NilUUID)), StrV(UUIDString(SomeUUID)),
     StrV(StrA1), StrV(Str7), StrV(Str01234)}

\* v := u.UUID(opts...)
NewUrsaUUID ==
    /\ op = "start"
    /\ \E os \in UrsaOptSeqs(MaxOpts) :
          /\ v' = u_UUID(os)
          /\ opts' = os
    /\ op' = "built"
    /\ UNCHANGED <<procs, target, ret, o, declared, req, input, res, evaluated>>

\* v.Parse(x)
ParseUrsaUUID ==
    /\ op # "start"
    /\ \E x \in UrsaUUIDInputs :
          LET r == ursaUUID_Parse(v, x)
          IN /\ v' = r.self
             /\ res' = r.res
             /\ evaluated' = r.evaluated
             /\ input' = x
    /\ op' = "Parse"
    /\ UNCHANGED <<procs, target, ret, opts, o, declared, req>>

NextUrsaUUID == NewUrsaUUID \/ ParseUrsaUUID

SpecUrsaUUID == InitScalar /\ [][NextUrsaUUID]_vars

\* a UUID validator whose rules are NonNullUUID rules was given a UUID, as a
\* value or as its canonical string
NonNullOnUUID ==
    /\ op = "Parse"
    /\ v.T = "uuid" /\ v.err = NoErr
    /\ v.options # <<>>
    /\ \A i \in 1..Len(v.options) : v.options[i].kind = "NonNullUUID"
    /\ input.p = "val"
    /\ \/ input.t = "uuid"
       \/ input.t = "string" /\ ParseUUID(input.b).ok

\* the 16 bytes of that UUID
GivenUUID == IF input.t = "uuid" THEN input.b ELSE ParseUUID(input.b).u

\* ... was given a string that is no UUID
NonNullOnOtherString ==
    /\ op = "Parse"
    /\ v.T = "uuid" /\ v.err = NoErr
    /\ input.p = "val" /\ input.t = "string" /\ ~ParseUUID(input.b).ok

\* C21: NonNullUUID passes iff one of the 16 bytes is nonzero; the all-zero
\* UUID, as a value or as its canonical string, is parsed and then fails
\* every NonNullUUID rule with the rule's message, "uuid is zero" unless one
\* was given; a string that is no UUID fails as a coercion failure, with one
\* error and no rule applied.
C21_NonNullUUID ==
    /\ NonNullOnUUID =>
          /\ ~res.panicked
          /\ res.valid <=> (\E i \in 1..16 : GivenUUID[i] # 0)
          /\ res.valid => res.value = UUIDV(GivenUUID)
          /\ ~res.valid =>
                /\ Len(res.errors) = Len(v.options)
                /\ \A i \in 1..Len(v.options) :
                      res.errors[i].message =
                          (IF v.options[i].msg # "" THEN v.options[i].msg
                           ELSE "uuid is zero")
    /\ NonNullOnOtherString =>
          /\ ~res.panicked /\ ~res.valid
          /\ Len(res.errors) = 1
          /\ evaluated = <<>>

\* the input of Parse is no struct, no map, no pointer to one, no byte
\* payload and no request: nil, a number, a string, a pointer to a number
NotAnObject ==
    /\ IsParse
    /\ input.val.p \in {"val", "ptr"}
    /\ KindOfType(input.val.t) \notin {"struct", "map"}
    /\ input.val.t \notin {"bytes", "request"}

\* an error of the result is the extraction failure of an invalid type
CarriesInvalidType ==
    \E i \in 1..Len(res.errors) :
        /\ res.errors[i].message = "failed to extract value"
        /\ res.errors[i].inner = InvalidTypeError.id

\* C22: an object validator rejects every input that is no struct, map,
\* pointer to one of them, byte payload or request: whatever the schema, also
\* one without fields, the result is invalid and carries an invalid-type
\* extraction failure.
C22_RejectsNonObjects ==
    NotAnObject => (~res.panicked /\ ~res.valid /\ CarriesInvalidType)

\* C22 for the schemas that declare a field and have no build error
C22_WithFields ==
    (NotAnObject /\ o.fields # <<>> /\ o.err = NoErr) =>
        (~res.panicked /\ ~res.valid /\ CarriesInvalidType)

\* Parse was given a request of JSON content type, within the body size
\* limit, with a body and a positive content length
JSONBodyRead ==
    /\ op = "Parse"
    /\ input.req.kind = "request" /\ input.req.ctype = "application/json"
    /\ input.req.clen > 0 /\ input.req.clen <= o.maxBodySize
    /\ ~input.req.body.nil

\* ... and the body delivers fewer bytes than the content length declares
ShortBody ==
    /\ JSONBodyRead
    /\ Len(input.req.body.data) - input.req.body.pos < input.req.clen

\* the result is invalid with the one error msg, and no field was evaluated
RefusedWith(msg) ==
    /\ ~res.panicked /\ ~res.valid
    /\ Len(res.errors) = 1
    /\ res.errors[1].message = msg
    /\ evaluated = <<>>

\* C23: for an application/json request exactly content-length bytes are
\* read, and a body that delivers fewer bytes gives an invalid result whose
\* single error is "request body size mismatch"; nothing is decoded and no
\* field is evaluated.
C23_ShortReadIsSizeMismatch ==
    /\ (JSONBodyRead /\ ~ShortBody) =>
          req.body.pos = input.req.body.pos + input.req.clen
    /\ ShortBody => RefusedWith("request body size mismatch")

\* C23 with the error the short read does give
C23_ShortReadIsReadFailure ==
    /\ (JSONBodyRead /\ ~ShortBody) =>
          req.body.pos = input.req.body.pos + input.req.clen
    /\ ShortBody => RefusedWith("reading request body")

\* the i-th field name was declared with Object(...) and the last Parse
\* stored a result for it
NestedEntry(i) ==
    /\ o.validators[i].kind = "object"
    /\ res.value[i].set

\* the sub-result of the nested validator is the value of the i-th entry,
\* when valid with an entry of its own for every field the nested validator
\* declares, and its errors make the parent invalid
NestedStored(i) ==
    /\ res.value[i].value.t = "resultmap"
    /\ \A j \in 1..Len(FieldNames) :
          (/\ res.value[i].valid
           /\ \E k \in 1..Len(o.validators[i].o.fields) :
                 o.validators[i].o.fields[k] = FieldNames[j])
          => res.value[i].value.m[j].set
    /\ (res.value[i].errors # <<>> \/ ~res.value[i].valid) => ~res.valid

\* the i-th field of the struct target is a settable nested struct whose
\* first candidate name with an entry names a nested sub-result
NestedTargetField(i) ==
    /\ CanSet(target, i)
    /\ target.fields[i].T = "struct"
    /\ Matching(i) # {}
    /\ FirstMatch(i).value.t = "resultmap"

\* the fields of that nested struct hold the nested validated values
NestedPopulated(i) ==
    \A j \in 1..Len(target.fields[i].value.m) :
        LET inner == target.fields[i].value.m[j]
            sub == FirstMatch(i).value.m
        IN  (inner.exported /\ \E k \in 1..Len(FieldNames) :
                                  FieldNames[k] = inner.name /\ sub[k].set)
            => ret.target.fields[i].value.m[j].value = sub[NameIndex(inner.name)].value

\* C24: a field declared with Object(...) is validated by an object validator
\* whose sub-result is stored as the field's value and whose errors make the
\* parent invalid, and Unmarshal of a valid parent result into a struct fills
\* a nested struct field from that sub-result.
C24_NestedRecurses ==
    /\ (op \in {"Parse", "Unmarshal"} /\ ~res.panicked) =>
          \A i \in 1..Len(FieldNames) : NestedEntry(i) => NestedStored(i)
    /\ (op = "Unmarshal" /\ res.valid /\ target.k = "ptrstruct" /\ ~ret.panicked) =>
          \A i \in 1..Len(target.fields) :
              NestedTargetField(i) => (ret.err = "" /\ NestedPopulated(i))

\* C24 without Unmarshal: what Parse does for a nested object field
C24_NestedStored ==
    (op \in {"Parse", "Unmarshal"} /\ ~res.panicked) =>
        \A i \in 1..Len(FieldNames) : NestedEntry(i) => NestedStored(i)

\* Parse was given a multipart request without a query string, and
\* ParseMultipartForm accepted it
MultipartParsed ==
    /\ op = "Parse"
    /\ input.req.kind = "request" /\ input.req.ctype = "multipart/form-data"
    /\ input.req.clen <= o.maxBodySize
    /\ input.req.query = <<>>
    /\ req.multipart.set

\* the parts of the request that are files, and those that are text fields,
\* under the i-th field name, in the order they were submitted
FilePartsOf(i) ==
    SelectSeq(input.req.body.parts, LAMBDA part : part.file /\ part.name = FieldNames[i])

TextPartsOf(i) ==
    SelectSeq(input.req.body.parts, LAMBDA part : ~part.file /\ part.name = FieldNames[i])

\* the mapping the claim describes: the list of its files for a name that has
\* file parts, the first submitted value for a text key
MultipartMapping ==
    MapV([i \in 1..Len(FieldNames) |->
             IF FilePartsOf(i) # <<>> THEN FilesV(Len(FilePartsOf(i)))
             ELSE IF TextPartsOf(i) # <<>> THEN StrV(TextPartsOf(i)[1].b)
             ELSE Missing])

\* a name of the request is both a text field and a file part
SharedName == \E i \in 1..Len(FieldNames) : FilePartsOf(i) # <<>> /\ TextPartsOf(i) # <<>>

\* C25: for a multipart request the field validators are handed a mapping
\* with the list of its files for every name that has file parts and the
\* first submitted value for every text key, whatever the combination of text
\* fields and file parts, a name that is both included.
C25_MultipartMapping == MultipartParsed => SameAsNative(MultipartMapping)

\* C25 for the requests in which no name is both a text field and a file part
C25_DistinctNames == (MultipartParsed /\ ~SharedName) => SameAsNative(MultipartMapping)

\* the calls the last Parse made in its two loops, as they should be: the
\* child of every entry of o.fields in declaration order, then every refiner
\* in the order Refine added them
FieldsThenRefiners ==
    [i \in 1..Len(o.fields) |-> Event("field", o.fields[i])]
    \o [i \in 1..Len(o.refiners) |-> Event("refiner", o.refiners[i])]

\* C26: in every Parse of an object validator that reaches the evaluation of
\* the fields, every declared field's validator is invoked and its result
\* stored before the first refiner is called, and the refiners are called
\* once each, in the order they were added, whether or not a field failed.
C26_RefinersAfterFields ==
    (IsParse /\ evaluated # <<>>) =>
        /\ ~res.panicked
        /\ evaluated = FieldsThenRefiners
        /\ \A i \in 1..Len(o.fields) : res.value[NameIndex(o.fields[i])].set

\* C26 for the calls that return
C26_WhenReturned ==
    ReachedFields =>
        /\ evaluated = FieldsThenRefiners
        /\ \A i \in 1..Len(o.fields) : res.value[NameIndex(o.fields[i])].set

\* two refiners ran in the order they were added, after two fields of which
\* one failed
C26_Reached ==
    /\ ReachedFields
    /\ Len(o.refiners) = 2 /\ o.refiners[1] # o.refiners[2]
    /\ Len(o.fields) = 2
    /\ ~res.value[NameIndex(o.fields[1])].valid

\* ------------------------------------------- concurrent Parse on one schema

\* the Parse calls that run at the same time on the one validator
MaxCalls == 2

\* a Parse call in flight: its own input, the value its field loop looks
\* into, the names and the refiners its range loops have still to visit, its
\* parseRes, and whether another call was in flight when it began
Call(pc, x, val, names, refiners, result, overlapped) ==
    [pc |-> pc, input |-> x, val |-> val, names |-> names, refiners |-> refiners,
     res |-> result, overlapped |-> overlapped]

\* the call moves on: a panic ends it; when the range over o.fields is
\* exhausted the range over o.refiners is evaluated; when that is exhausted
\* the call returns
settle(ov, c) ==
    CASE c.res.panicked -> [c EXCEPT !.pc = "done"]
      [] c.pc = "fields" /\ c.names = <<>> ->
            [c EXCEPT !.pc = IF ov.refiners = <<>> THEN "done" ELSE "refiners",
                      !.refiners = ov.refiners]
      [] c.pc = "refiners" /\ c.refiners = <<>> -> [c EXCEPT !.pc = "done"]
      [] OTHER -> c

\* Parse up to its first loop: the state check, the decoding of a byte slice,
\* parseRes as new, the range over o.fields evaluated
begin(ov, x, u, overlapped) ==
    CASE ov.err # NoErr ->
            Call("done", x, x.val, <<>>, <<>>,
                 Result(TRUE, NoFields, <<InvalidValidatorStateError>>), overlapped)
      [] u.st = "err" ->
            Call("done", x, x.val, <<>>, <<>>, ErrorResult(u.err), overlapped)
      [] OTHER ->
            settle(ov, Call("fields", x, u.val, ov.fields, <<>>, NewResult, overlapped))

\* the value the field loop of Parse(x) ranges into
decoded(x) ==
    IF x.val.p = "val" /\ x.val.t = "bytes" THEN Unmarshal(x.val.b) ELSE Ok(x.val)

\* one turn of the loop the call is in, on the validator as it is now
turn(ov, c) ==
    IF c.pc = "fields"
    THEN The({[self |-> next.self,
               call |-> settle(next.self, [c EXCEPT !.names = Tail(@),
                                                   !.res = next.res])]
              : next \in {fieldStep(c.val, Head(c.names), Loop(ov, c.res, <<>>))}})
    ELSE [self |-> ov,
          call |-> settle(ov, [c EXCEPT !.refiners = Tail(@),
                                        !.res = refine(Head(c.refiners), c.res)])]

ConcurrentInputs ==
    {Input(x, NoRequest) :
        x \in {MapV(<<StrV(Str01234), StrV(Str7)>>),
               MapV(<<StrV(StrA1), Missing>>),
               MapV(<<MapV(<<StrV(Str01234), Missing>>), IntV(7)>>),
               BytesV(JSONShortA), BytesV(JSONCut), IntKeyMap}}

InFlight == {p \in 1..Len(procs) : procs[p].pc # "done"}

\* the schemas the calls share, as the builder calls leave them
ConcurrentSchemas ==
    {Object(<<>>),
     objectValidator_Refine(
         objectValidator_Int(
             objectValidator_String(Object(<<>>), "A", StringFieldOpts),
             "B", IntFieldOpts),
         "whenAValid"),
     objectValidator_Refine(
         objectValidator_Refine(
             objectValidator_Int(Object(<<WithMaxBodySize(8)>>), "A", IntFieldOpts),
             "always"),
         "whenAValid"),
     objectValidator_String(
         objectValidator_String(Object(<<>>), "A", StringFieldOpts),
         "A", StringFieldOpts),
     objectValidator_Object(
         objectValidator_String(Object(<<>>), "B", StringFieldOpts),
         "A", <<DeclaringString("A")>>)}

\* the schema has been built and no call has begun
InitConcurrent ==
    /\ v = Construct("string", <<>>)
    /\ opts = <<>>
    /\ o \in ConcurrentSchemas
    /\ declared = o.fields
    /\ req = NoRequest
    /\ input = NoInput
    /\ res = NoResult
    /\ evaluated = <<>>
    /\ target = NoTarget
    /\ ret = NoReturn
    /\ procs = NoCalls
    /\ op = "built"

\* go o.Parse(x); op is "go" after every step of a concurrent call
CallParse ==
    /\ op \in {"built", "go"}
    /\ Len(procs) < MaxCalls
    /\ \E x \in ConcurrentInputs :
          procs' = Append(procs, begin(o, x, decoded(x), InFlight # {}))
    /\ op' = "go"
    /\ UNCHANGED <<target, ret, v, opts, o, declared, req, input, res, evaluated>>

\* the scheduler lets one of the calls in flight take its next turn
Turn ==
    /\ \E p \in InFlight :
          \E t \in {turn(o, procs[p])} :
             /\ o' = t.self
             /\ procs' = [procs EXCEPT ![p] = t.call]
    /\ op' = "go"
    /\ UNCHANGED <<target, ret, v, opts, declared, req, input, res, evaluated>>

NextConcurrent == CallParse \/ Turn

SpecConcurrent == InitConcurrent /\ [][NextConcurrent]_vars

\* what the call returns when it runs alone on the validator
Alone(ov, x) == objectValidator_Parse(ov, x.val, x.req).res

\* C27: when several Parse calls run at the same time on one validator,
\* interleaved at any step, no step of any of them writes the validator, and
\* each call returns the result it returns when run alone on its own input.
C27_ConcurrentReuse ==
    [][(op' = "go") =>
          /\ o' = o
          /\ \A p \in 1..Len(procs') :
                procs'[p].pc = "done" => procs'[p].res = Alone(o', procs'[p].input)]_vars

\* two calls that overlapped have returned different results for different
\* inputs, on a schema of two fields and a refiner
C27_Witness ==
    /\ Len(procs) = 2
    /\ procs[1].pc = "done" /\ procs[2].pc = "done"
    /\ procs[2].overlapped
    /\ procs[1].input # procs[2].input
    /\ ~procs[1].res.panicked /\ ~procs[2].res.panicked
    /\ procs[1].res # procs[2].res
    /\ Len(o.fields) = 2 /\ o.refiners # <<>>

\* a number was accepted by an Int16 validator whose rules are Min and Max
AcceptedByInt16 == NumberAgainstBounds /\ v.T = "int16" /\ res.valid

\* the int16 values, in tenths
InInt16(q) == q >= 0 - 327680 /\ q <= 327670 /\ q % 10 = 0

\* C28: the bounds of a validator of a fixed-width integer type cannot be
\* bypassed by narrowing: every number Parse accepts satisfies Min and Max in
\* its original value and is returned unchanged; a number outside the width
\* is never wrapped modulo 2^16 into a value that passes.
C28_BoundsNotBypassed ==
    AcceptedByInt16 =>
        /\ \A i \in 1..Len(v.options) : ~OutOfBound(v.options[i], input)
        /\ res.value.q = input.q

\* C28 for the numbers that are int16 values
C28_WithinWidth ==
    (AcceptedByInt16 /\ InInt16(input.q)) =>
        /\ \A i \in 1..Len(v.options) : ~OutOfBound(v.options[i], input)
        /\ res.value.q = input.q

\* 65542 was accepted by Int16(Min(5), Max(7)) as 6
C28_Wrapped ==
    /\ AcceptedByInt16
    /\ input = IntV(65542)
    /\ Len(v.options) = 2
    /\ res.value.q = 60

\* Parse was handed (*T)(nil) for T the validator's own type
TypedNilPointer == op = "Parse" /\ input.p = "nilptr" /\ input.t = v.T

\* C29: a nil pointer is an absent value: Parse of (*T)(nil) returns what
\* Parse(nil) returns on the same validator (the default if one is
\* configured, else the missing-required-property error if required, else a
\* valid zero-value result), never a type or transformer error or a fault.
C29_NilPointerIsAbsent ==
    TypedNilPointer =>
        /\ ~res.panicked
        /\ res = validator_Parse(v, Nil).res

\* what the code does with (*T)(nil) when the validator was built without
\* error and has no transformer: a string validator answers with the missing
\* transformer error, a number validator faults in the coercion
C29_NilPointerRefused ==
    (TypedNilPointer /\ PlainValidator) =>
        IF v.T = "string"
        THEN ~res.panicked /\ ~res.valid /\ res.errors = <<MissingTransformerError>>
        ELSE res.panicked

RECURSIVE EntryErrorCount(_)
\* the sum of the lengths of the error lists of the result map's entries,
\* from the i-th name on
EntryErrorCount(i) ==
    IF i > Len(res.value) THEN 0
    ELSE (IF res.value[i].set THEN Len(res.value[i].errors) ELSE 0)
         + EntryErrorCount(i + 1)

\* how often the last Parse invoked the child validator of name
Invocations(name) == Len(SelectSeq(FieldsRun, LAMBDA n : n = name))

\* the last Parse returned from a schema that has no refiner, so that every
\* error of the result is a field's
ParsedFieldsOnly == ReachedFields /\ o.refiners = <<>>

\* no name was declared twice
DistinctDeclarations ==
    \A i, j \in 1..Len(o.fields) : i # j => o.fields[i] # o.fields[j]

\* C30: each field name is evaluated once per Parse: whatever the builder
\* calls were, a name declared more than once included, one Parse invokes one
\* child validator per distinct name and the error list holds each field's
\* errors once (its length is the sum of the lengths of the per-field lists
\* of the result map).
C30_OncePerName ==
    ParsedFieldsOnly =>
        /\ \A i \in 1..Len(o.fields) : Invocations(o.fields[i]) = 1
        /\ Len(res.errors) = EntryErrorCount(1)

\* C30 for the schemas that declare every name once
C30_DeclaredOnce ==
    (ParsedFieldsOnly /\ DistinctDeclarations) =>
        /\ \A i \in 1..Len(o.fields) : Invocations(o.fields[i]) = 1
        /\ Len(res.errors) = EntryErrorCount(1)

====
